---- MODULE Spec2Model ----
(***************************************************************************)
(* Model of the corpus preparation pipeline of                             *)
(* examples/speech_translation/punct_ds_preparation/                       *)
(* prepare_big_data_for_punctuation_capitalization_task_simple.py          *)
(*                                                                         *)
(* The module holds several state machines over one set of variables, one  *)
(* per pipeline component.  Each machine has its own specification; the    *)
(* variables of the other machines stay at their idle values.              *)
(*                                                                         *)
(* Text is a sequence of one-character strings.  The tag '<page' is        *)
(* written "<p" and '</page' is written "</p" (the algorithms only search  *)
(* for the tags, so their length is immaterial); "n" is the line feed and  *)
(* "u" is a character that takes two bytes in UTF-8.                       *)
(***************************************************************************)
EXTENDS Integers, Sequences, FiniteSets, TLC

VARIABLES
    machine,                \* which component this behaviour runs
    \* ---- ByteRangePartitioner and the wikipedia workers
    file,                   \* the text of the input file
    num_parts,              \* num_parts / num_jobs
    bpc,                    \* position in preprocess_wikipedia_parallel
    part_i,                 \* loop variable i of get_borders_with_documents_intact
    fpos,                   \* position of the file object f, in characters
    last_byte_border,
    total_characters_read,
    remainder,
    byte_borders,
    num_characters_in_part,
    result,                 \* result[k]: what worker k of the pool returned
    max_num_characters_in_1_file,   \* the limit that decides the number of output files of a part
    \* ---- main and the wiki-extracted extractor
    epc,                    \* position in the extraction loop of main
    corpus,                 \* files_with_data of the corpus being extracted
    corpus_i,               \* number of corpora extracted so far
    main_start_doc_id,
    main_start_file_id,
    pending,                \* tasks of the pool that have not run yet
    \* ---- preprocess_pg19 and merge_small_files
    mpc,                    \* position in preprocess_pg19 / merge_small_files
    pg19_files,             \* the books of the PG-19 directory
    rev,
    files,
    stats,
    max_size,
    merge_i,                \* the loop variable i of merge_small_files
    curr_file_i,
    curr_size,
    merge_input,            \* the argument doc_id_to_file_i of merge_small_files
    documents_before,       \* the shard directory when merge_small_files was called
    \* ---- get_how_many_segments_to_cut_by_files
    apc,                    \* position in get_how_many_segments_to_cut_by_files
    alloc_stats,            \* stats: the sizes of the files
    alloc_size,             \* size: the number of segments to cut
    max_possible_segments_per_file,
    alloc_result,           \* what the call returned or raised
    \* ---- extract_dev_text_segments
    dpc,                    \* position in extract_dev_text_segments
    dev_size,
    test_size,
    sequence_length_range,
    num_segments_by_files,
    dev_results,            \* what each task of the pool returned or raised
    after_extraction_documents,
    dev_text,               \* the segments written to dev_text.txt
    test_text,              \* the segments written to test_text.txt
    \* ---- cut_segment and cut_and_save
    cpc,                    \* position in cut_segment / cut_and_save
    cut_text,               \* text: a string of characters
    cut_shift,              \* shift of cut_segment
    cut_num_words,          \* num_words_in_segment of cut_segment
    cut_segment_result,     \* what cut_segment returned
    sequence_range,
    num_words_in_segments,
    one_pass,                   \* the local variables of cut_and_save_one_pass
    num_passes_through_dataset,
    out_f,                  \* the segments written to out_f
    cut_raised,
    \* ---- preprocess_europarl
    europarl_call,          \* the last call of preprocess_europarl: arguments and results
    \* ---- preprocess_un and preprocess_tatoeba
    upc,                    \* position in preprocess_un / preprocess_tatoeba
    un_files,               \* the .xml files of the UN directory, or the lines of the tatoeba file
    un_start_doc_id,
    un_start_file_id,
    un_pending,             \* tasks of the pool that have not run yet
    un_raised,
    un_returned,            \* the dictionary the extractor returned
    \* ---- Progress, show_prog and the stages that report progress
    gpc,                    \* position in the stage that started the progress process
    stage_kind,             \* how the stage starts and stops the progress process
    total_num_lines,
    progress_queues,        \* the queues, each a list of values not read yet
    prog,                   \* prog[i]: the count displayed by bar i (prog[i].n)
    finished,
    warned,                 \* the bars for which show_prog logged the warning
    sp,                     \* the local variables of show_prog: position, i, to_add
    puts_left,              \* the number of values the workers of the pool will still put
    pushed,                 \* pushed[i]: the sum of the values the workers put on queue i
    delivered,              \* delivered[i]: queue i has given its -1 to show_prog
    exc,                    \* an exception of a worker is on its way out of the stage
    \* ---- main and get_args: the driver of the stages
    driver_pc,              \* the statement of main that runs next
    resume_from,            \* --resume_from, "None" when not given
    input_files_or_dirs,    \* how many --input_files_or_dirs, -1 when not given
    corpus_types,           \* --corpus_types
    allowed_punctuation,    \* --allowed_punctuation
    args_dev_size,          \* --dev_size
    args_test_size,         \* --test_size
    intact_sentences,       \* --intact_sentences
    on_disk,                \* the files and directories of output_dir that exist
    created,                \* the files and directories the run created or rewrote
    executed,               \* the stages the run started, in order
    driver_error,           \* the exception that ended the run
    \* ---- DocumentStore
    documents,              \* the shard directory: shard index -> content of <index>.xml
    doc_id_to_file_i        \* the document_id -> shard_id map kept by the caller

varsBorders == <<file, num_parts, bpc, part_i, fpos, last_byte_border, total_characters_read,
                 remainder, byte_borders, num_characters_in_part, result,
                 max_num_characters_in_1_file>>

varsStore == <<documents, doc_id_to_file_i>>

varsExtract == <<epc, corpus, corpus_i, main_start_doc_id, main_start_file_id, pending>>

varsMerge == <<mpc, pg19_files, rev, files, stats, max_size, merge_i, curr_file_i, curr_size, merge_input, documents_before>>

varsAlloc == <<apc, alloc_stats, alloc_size, max_possible_segments_per_file, alloc_result>>

varsDev == <<dpc, dev_size, test_size, sequence_length_range, num_segments_by_files, dev_results, after_extraction_documents, dev_text, test_text>>

varsCut == <<cpc, cut_text, cut_shift, cut_num_words, cut_segment_result, sequence_range, num_words_in_segments, one_pass, num_passes_through_dataset, out_f, cut_raised>>

varsEuroparl == <<europarl_call>>

varsUn == <<upc, un_files, un_start_doc_id, un_start_file_id, un_pending, un_raised, un_returned>>

varsProgress == <<gpc, stage_kind, total_num_lines, progress_queues, prog, finished, warned, sp, puts_left, pushed, delivered, exc>>

varsDriver == <<driver_pc, resume_from, input_files_or_dirs, corpus_types, allowed_punctuation, args_dev_size, args_test_size, intact_sentences, on_disk, created, executed, driver_error>>

notBorders == <<varsExtract, varsMerge, varsAlloc, varsDev, varsCut, varsEuroparl, varsUn, varsProgress, varsDriver>>

notExtract == <<varsBorders, varsMerge, varsAlloc, varsDev, varsCut, varsEuroparl, varsUn, varsProgress, varsDriver>>

notMerge == <<varsBorders, varsAlloc, varsDev, varsCut, varsEuroparl, varsUn, varsProgress, varsDriver>>

notAlloc == <<varsBorders, varsExtract, varsMerge, varsDev, varsCut, varsEuroparl, varsUn, varsProgress, varsDriver>>

notDev == <<varsBorders, varsExtract, varsMerge, varsAlloc, varsCut, varsEuroparl, varsUn, varsProgress, varsDriver>>

notCut == <<varsBorders, varsExtract, varsMerge, varsAlloc, varsDev, varsEuroparl, varsUn, varsProgress, varsDriver>>

notEuroparl == <<varsBorders, pending, corpus, varsMerge, varsAlloc, varsDev, varsCut, varsUn, varsProgress, varsDriver>>

notUn == <<varsBorders, varsExtract, varsMerge, varsAlloc, varsDev, varsCut, varsEuroparl, varsProgress, varsDriver>>

notProgress == <<varsBorders, varsExtract, varsMerge, varsAlloc, varsDev, varsCut, varsEuroparl, varsUn, varsDriver>>

notDriver == <<varsBorders, varsExtract, varsMerge, varsAlloc, varsDev, varsCut, varsEuroparl, varsUn, varsProgress>>

vars == <<machine, varsBorders, varsExtract, varsMerge, varsAlloc, varsDev, varsCut, varsEuroparl, varsUn, varsProgress, varsDriver, varsStore>>

----------------------------------------------------------------------------
(* Bounds of the model *)

MaxBlocks == 3
MaxPages == 5
MaxParts == 4
MaxCorpora == 2
MaxFilesInCorpus == 2
MaxDocsInFile == 2
MaxBooks == 3
MaxBookSize == 3
MaxEarlierShards == 1
MaxShards == 3
MaxShardBytes == 2
MaxAllowedSegments == 2
MaxSegments == 4
MaxWords == 2
MaxLines == 2
MaxDevDocs == 2
MaxDevShards == 2
MaxDirDocs == 2
MaxDevSize == 1
MaxTestSize == 1
MaxSegmentLength == 2
MaxChars == 5
MaxShift == 2
MaxCutWords == 2
MaxTrainWords == 8
MaxTrainLength == 4
MaxPasses == 2
MaxSessions == 2
MaxEuroparlLines == 3
MaxEuroparlCorpora == 2
MaxUnFiles == 2
MaxParagraphs == 2
MaxTatoebaLines == 2
MaxTatoebaWords == 3
MaxBars == 2
MaxTotal == 2
MaxDelta == 2
MaxPuts == 2

----------------------------------------------------------------------------
(* Program constants *)

BUFFER_SIZE == 16777216
MAX_NUM_CHARACTERS_IN_1_FILE == 1000000000

----------------------------------------------------------------------------
(* Arithmetic and sequences *)

Min(a, b) == IF a < b THEN a ELSE b
Max(a, b) == IF a > b THEN a ELSE b

\* int(np.ceil(a / b)) for a >= 0, b > 0
CeilDiv(a, b) == (a + b - 1) \div b

\* sum(s[:k])
RECURSIVE PrefixSum(_, _)
PrefixSum(s, k) == IF k = 0 THEN 0 ELSE s[k] + PrefixSum(s, k - 1)

SumSeq(s) == PrefixSum(s, Len(s))

\* list(accumulate(s, initial=init))
accumulate(s, init) == [k \in 1..(Len(s) + 1) |-> init + PrefixSum(s, k - 1)]

\* s[a:b] of Python for 0 <= a, with b clipped to the length
Slice(s, a, b) == SubSeq(s, a + 1, Min(b, Len(s)))

\* len(c.encode('utf-8'))
CharBytes(c) == IF c = "u" THEN 2 ELSE 1

\* len(s[:k].encode('utf-8'))
RECURSIVE PrefixBytes(_, _)
PrefixBytes(s, k) == IF k = 0 THEN 0 ELSE CharBytes(s[k]) + PrefixBytes(s, k - 1)

\* len(s.encode('utf-8'))
encode_len(s) == PrefixBytes(s, Len(s))

StartsWithAt(s, pat, k) ==
    /\ k + Len(pat) <= Len(s)
    /\ \A j \in 1..Len(pat) : s[k + j] = pat[j]

\* pat in s
Contains(s, pat) == \E k \in 0..Len(s) : StartsWithAt(s, pat, k)

\* s.index(pat), 0-based
IndexOf(s, pat) == CHOOSE k \in 0..Len(s) :
    /\ StartsWithAt(s, pat, k)
    /\ \A j \in 0..(k - 1) : ~StartsWithAt(s, pat, j)

\* s.count(pat): non-overlapping occurrences, scanning from the left
RECURSIVE CountFrom(_, _, _)
CountFrom(s, pat, k) ==
    IF k + Len(pat) > Len(s) THEN 0
    ELSE IF StartsWithAt(s, pat, k) THEN 1 + CountFrom(s, pat, k + Len(pat))
    ELSE CountFrom(s, pat, k + 1)

count(s, pat) == CountFrom(s, pat, 0)

\* dict: a function on a finite set of keys
EmptyMap == [k \in {} |-> 0]

\* d1.update(d2)
update(d1, d2) ==
    [k \in (DOMAIN d1) \cup (DOMAIN d2) |-> IF k \in DOMAIN d2 THEN d2[k] ELSE d1[k]]

PAGE_OPEN == <<"<", "p">>
PAGE_CLOSE == <<"<", "/", "p">>

\* f.readline() with f at character position pos of text
RECURSIVE LineEnd(_, _)
LineEnd(text, pos) ==
    IF pos >= Len(text) THEN Len(text)
    ELSE IF text[pos + 1] = "n" THEN pos + 1
    ELSE LineEnd(text, pos + 1)

readline(text, pos) == Slice(text, pos, LineEnd(text, pos))

----------------------------------------------------------------------------
(* Input files: concatenations of at most MaxBlocks blocks *)

PageWithText == <<"<", "p", "n", "u", "n", "<", "/", "p", "n">>
PageWithLongText == <<"<", "p", "n", "u", "u", "n", "p", "n", "<", "/", "p", "n">>
PageOnOneLine == <<"<", "p", "u", "<", "/", "p", "n">>
PageWithoutText == <<"<", "p", "n", "<", "/", "p", "n">>
PlainLine == <<"u", "n">>

WellFormedBlocks == {PageWithText, PageWithLongText}
Blocks == WellFormedBlocks \cup {PageOnOneLine, PageWithoutText, PlainLine}

RECURSIVE FilesOf(_, _)
FilesOf(blocks, k) ==
    IF k = 0 THEN {<<>>}
    ELSE LET shorter == FilesOf(blocks, k - 1)
         IN shorter \cup {f \o b : f \in shorter, b \in blocks}

\* Files made of well-formed <page> ... </page> blocks only
WellFormedFiles == FilesOf(WellFormedBlocks, MaxPages)

Files == FilesOf(Blocks, MaxBlocks) \cup WellFormedFiles

----------------------------------------------------------------------------
(* ByteRangePartitioner: get_borders_with_documents_intact *)

\* The while loop of move_by_n_characters_in_file, f at position pos.
RECURSIVE MoveLoop(_, _, _, _, _, _)
MoveLoop(text, pos, n, buffer_size, characters_read, bytes_read) ==
    IF n > characters_read
    THEN LET buffer == Slice(text, pos, pos + Min(buffer_size, n - characters_read))
         IN IF buffer = <<>>
            THEN [characters_read |-> characters_read, bytes_read |-> bytes_read]
            ELSE MoveLoop(text, pos + Len(buffer), n, buffer_size,
                          characters_read + Len(buffer), bytes_read + encode_len(buffer))
    ELSE [characters_read |-> characters_read, bytes_read |-> bytes_read]

move_by_n_characters_in_file(text, pos, n, buffer_size) ==
    MoveLoop(text, pos, n, buffer_size, 0, 0)

\* The loop `while line:` that looks for the next '<page'.  line has just been
\* read and f is at pos; total already counts len(line).
RECURSIVE ScanForPage(_, _, _, _, _, _)
ScanForPage(text, pos, line, characters_in_part, bytes_read, total) ==
    IF line = <<>>
    THEN [success |-> FALSE, pos |-> pos, remainder |-> <<>>,
          characters_in_part |-> characters_in_part, bytes_read |-> bytes_read, total |-> total]
    ELSE IF Contains(line, PAGE_OPEN)
    THEN LET new_page_start == IndexOf(line, PAGE_OPEN)
             head == Slice(line, 0, new_page_start)
         IN [success |-> TRUE, pos |-> pos,
             remainder |-> Slice(line, new_page_start, Len(line)),
             characters_in_part |-> characters_in_part + Len(head),
             bytes_read |-> bytes_read + encode_len(head), total |-> total]
    ELSE LET next == readline(text, pos)
         IN ScanForPage(text, pos + Len(next), next, characters_in_part + Len(line),
                        bytes_read + encode_len(line), total + Len(next))

count_characters_in_file(text) == Len(text)

\* One iteration of `for i in range(num_parts)`.
BordersPart_counts_end_of_file(text, parts, i, pos, last, total, rem) ==
    LET length == count_characters_in_file(text)
        part_size == length \div parts
        read_size == part_size * (i + 1) - total
        moved == move_by_n_characters_in_file(text, pos, read_size, BUFFER_SIZE)
        characters_in_part == moved.characters_read + Len(rem)
        bytes_read == moved.bytes_read + encode_len(rem)
        total1 == total + characters_in_part
        pos1 == pos + moved.characters_read
    IN IF characters_in_part < read_size
       THEN [border |-> <<last, last + bytes_read>>, chars |-> characters_in_part,
             pos |-> pos1, last |-> last, total |-> total1, remainder |-> rem]
       ELSE LET line == readline(text, pos1)
                scan == ScanForPage(text, pos1 + Len(line), line, characters_in_part,
                                    bytes_read, total1 + Len(line))
            IN IF scan.success
               THEN [border |-> <<last, last + scan.bytes_read>>,
                     chars |-> scan.characters_in_part, pos |-> scan.pos,
                     last |-> last + scan.bytes_read, total |-> scan.total,
                     remainder |-> scan.remainder]
               ELSE [border |-> <<last, last + scan.bytes_read>>,
                     chars |-> scan.characters_in_part + 1, pos |-> scan.pos,
                     last |-> last, total |-> scan.total, remainder |-> rem]

BordersPart(text, parts, i, pos, last, total, rem) ==
    LET length == count_characters_in_file(text)
        part_size == length \div parts
        read_size == part_size * (i + 1) - total
        moved == move_by_n_characters_in_file(text, pos, read_size, BUFFER_SIZE)
        characters_in_part == moved.characters_read + Len(rem)
        bytes_read == moved.bytes_read + encode_len(rem)
        total1 == total + characters_in_part
        pos1 == pos + moved.characters_read
    IN IF characters_in_part < read_size
       THEN [border |-> <<last, last + bytes_read>>, chars |-> characters_in_part,
             pos |-> pos1, last |-> last, total |-> total1, remainder |-> rem]
       ELSE LET line == readline(text, pos1)
                scan == ScanForPage(text, pos1 + Len(line), line, characters_in_part,
                                    bytes_read, total1 + Len(line))
            IN IF scan.success
               THEN [border |-> <<last, last + scan.bytes_read>>,
                     chars |-> scan.characters_in_part, pos |-> scan.pos,
                     last |-> last + scan.bytes_read, total |-> scan.total,
                     remainder |-> scan.remainder]
               ELSE [border |-> <<last, last + scan.bytes_read>>,
                     chars |-> scan.characters_in_part, pos |-> scan.pos,
                     last |-> last, total |-> scan.total, remainder |-> rem]

\* The variables of a machine that does not run
IdleBorders ==
    /\ file = <<>> /\ num_parts = 0 /\ bpc = "idle" /\ part_i = 0 /\ fpos = 0
    /\ last_byte_border = 0 /\ total_characters_read = 0 /\ remainder = <<>>
    /\ byte_borders = <<>> /\ num_characters_in_part = <<>> /\ result = <<>>
    /\ max_num_characters_in_1_file = 0

IdleExtract ==
    /\ epc = "idle" /\ corpus = <<>> /\ corpus_i = 0 /\ main_start_doc_id = 0
    /\ main_start_file_id = 0 /\ pending = {}

IdleMerge ==
    /\ mpc = "idle" /\ pg19_files = <<>> /\ rev = EmptyMap /\ files = <<>> /\ stats = <<>>
    /\ max_size = 0 /\ merge_i = 0 /\ curr_file_i = 0 /\ curr_size = 0
    /\ merge_input = EmptyMap /\ documents_before = EmptyMap

IdleAlloc ==
    /\ apc = "idle" /\ alloc_stats = <<>> /\ alloc_size = 0
    /\ max_possible_segments_per_file = <<>> /\ alloc_result = <<>>

IdleDev ==
    /\ dpc = "idle" /\ dev_size = 0 /\ test_size = 0 /\ sequence_length_range = <<>>
    /\ num_segments_by_files = <<>> /\ dev_results = <<>>
    /\ after_extraction_documents = EmptyMap /\ dev_text = <<>> /\ test_text = <<>>

IdleCut ==
    /\ cpc = "idle" /\ cut_text = <<>> /\ cut_shift = 0 /\ cut_num_words = 0
    /\ cut_segment_result = <<>> /\ sequence_range = <<>> /\ num_words_in_segments = <<>>
    /\ one_pass = <<>> /\ num_passes_through_dataset = 0 /\ out_f = <<>> /\ cut_raised = "none"

IdleEuroparl ==
    /\ europarl_call = <<>>

IdleUn ==
    /\ upc = "idle" /\ un_files = <<>> /\ un_start_doc_id = 0 /\ un_start_file_id = 0
    /\ un_pending = {} /\ un_raised = "none" /\ un_returned = <<>>

IdleProgress ==
    /\ gpc = "idle" /\ stage_kind = "none" /\ total_num_lines = <<>> /\ progress_queues = <<>>
    /\ prog = <<>> /\ finished = <<>> /\ warned = <<>> /\ sp = <<>> /\ puts_left = 0
    /\ pushed = <<>> /\ delivered = <<>> /\ exc = FALSE

IdleDriver ==
    /\ driver_pc = "idle" /\ resume_from = "idle" /\ input_files_or_dirs = 0
    /\ corpus_types = <<>> /\ allowed_punctuation = {} /\ args_dev_size = 0
    /\ args_test_size = 0 /\ intact_sentences = FALSE /\ on_disk = {} /\ created = {}
    /\ executed = <<>> /\ driver_error = "none"

\* A task of the pool that has not returned yet
Pending == [raised |-> "pending", map |-> EmptyMap]

InitBorders ==
    /\ machine = "borders"
    /\ file \in Files
    /\ num_parts \in 1..MaxParts
    /\ bpc = "borders"
    /\ part_i = 0
    /\ fpos = 0
    /\ last_byte_border = 0
    /\ total_characters_read = 0
    /\ remainder = <<>>
    /\ byte_borders = <<>>
    /\ num_characters_in_part = <<>>
    /\ result = <<>>
    /\ max_num_characters_in_1_file = MAX_NUM_CHARACTERS_IN_1_FILE
    /\ documents = EmptyMap
    /\ doc_id_to_file_i = EmptyMap
    /\ IdleExtract
    /\ IdleMerge
    /\ IdleAlloc
    /\ IdleDev
    /\ IdleCut
    /\ IdleEuroparl
    /\ IdleUn
    /\ IdleProgress
    /\ IdleDriver

get_borders_with_documents_intact ==
    /\ machine = "borders"
    /\ bpc = "borders"
    /\ part_i < num_parts
    /\ LET r == BordersPart(file, num_parts, part_i, fpos, last_byte_border,
                            total_characters_read, remainder)
       IN /\ byte_borders' = Append(byte_borders, r.border)
          /\ num_characters_in_part' = Append(num_characters_in_part, r.chars)
          /\ fpos' = r.pos
          /\ last_byte_border' = r.last
          /\ total_characters_read' = r.total
          /\ remainder' = r.remainder
    /\ part_i' = part_i + 1
    /\ bpc' = IF part_i + 1 = num_parts THEN "pool" ELSE "borders"
    /\ result' = IF part_i + 1 = num_parts THEN [k \in 1..num_parts |-> Pending] ELSE result
    /\ UNCHANGED <<machine, file, num_parts, max_num_characters_in_1_file, varsStore, notBorders>>

----------------------------------------------------------------------------
(* preprocess_wikipedia_parallel and its pool of preprocess_wikipedia workers *)

\* The while loop of count_in_file_parts; f is at characters_read.
RECURSIVE CountPartsLoop(_, _, _, _, _, _)
CountPartsLoop(text, preceding, pattern, current_segment_i, characters_read, res) ==
    IF preceding[current_segment_i + 1] > characters_read
    THEN LET buffer == Slice(text, characters_read,
                             characters_read + Min(BUFFER_SIZE,
                                 preceding[current_segment_i + 1] - characters_read))
             read1 == characters_read + Len(buffer)
             res1 == [res EXCEPT ![current_segment_i + 1] = @ + count(buffer, pattern)]
             next_i == IF read1 >= preceding[current_segment_i + 1]
                       THEN current_segment_i + 1 ELSE current_segment_i
         IN IF next_i >= Len(preceding) \/ buffer = <<>>
            THEN res1
            ELSE CountPartsLoop(text, preceding, pattern, next_i, read1, res1)
    ELSE res

count_in_file_parts(text, part_num_characters, pattern) ==
    CountPartsLoop(text, [k \in 1..Len(part_num_characters) |->
                             PrefixSum(part_num_characters, k)], pattern, 0, 0,
                   [k \in 1..Len(part_num_characters) |-> 0])

\* list(accumulate(...))[:-1]
AllButLast(s) == SubSeq(s, 1, Len(s) - 1)

num_output_files ==
    [k \in 1..num_parts |-> CeilDiv(num_characters_in_part[k], max_num_characters_in_1_file)]

\* One output file for every part, whatever its size
out_file_ids_one_each(start_file_i) == [k \in 1..(num_parts + 1) |-> start_file_i + (k - 1)]

out_file_ids(start_file_i) == accumulate(num_output_files, start_file_i)

start_doc_ids(start_doc_id) ==
    AllButLast(accumulate(count_in_file_parts(file, num_characters_in_part, PAGE_OPEN),
                          start_doc_id))

start_line_ids ==
    AllButLast(accumulate(count_in_file_parts(file, num_characters_in_part, <<"n">>), 0))

\* in_f.seek(b): the character position of byte offset b
SeekPos(text, b) ==
    CHOOSE k \in 0..Len(text) :
        /\ encode_len(Slice(text, 0, k)) <= b
        /\ \A j \in (k + 1)..Len(text) : encode_len(Slice(text, 0, j)) > b

\* big.get_wiki_text_lines returns no lines for a page without text
HasText(page) == \E j \in 1..Len(page) : page[j] = "u"

\* The body of `for i, line in enumerate(in_f, ...)` in preprocess_wikipedia.
\* A document is recorded as [id, page]: page is the file position of the
\* line that opened the page, standing for the page's text.
RECURSIVE WikipediaLines(_, _, _, _, _)
WikipediaLines(text, n, characters_for_1_file, first_forbidden_out_file_i, st) ==
    LET raw == readline(text, st.pos)
    IN IF raw = <<>> THEN st
       ELSE
       LET line == IF Len(raw) > n - st.num_read_characters
                   THEN Slice(raw, 0, n - st.num_read_characters) ELSE raw
           num_read == st.num_read_characters + Len(line)
           total == st.total_in_current_file + Len(line)
           opens == Contains(line, PAGE_OPEN)
           in_progress == st.page_in_progress \/ opens
           start == IF opens THEN st.pos ELSE st.page_start
           page == IF in_progress THEN st.page \o line ELSE st.page
           closes == Contains(line, PAGE_CLOSE)
           emit == closes /\ in_progress /\ HasText(page)
           flush == emit /\ total > characters_for_1_file
           failed == flush /\ ~(st.file_i < first_forbidden_out_file_i)
           file_text == IF emit
                        THEN Append(st.file_text, [id |-> st.doc_id, page |-> start])
                        ELSE st.file_text
           st1 == [pos |-> st.pos + Len(raw),
                   num_read_characters |-> num_read,
                   total_in_current_file |-> IF flush THEN 0 ELSE total,
                   page_in_progress |-> IF closes THEN FALSE ELSE in_progress,
                   page_start |-> start,
                   page |-> IF closes THEN <<>> ELSE page,
                   doc_id |-> IF emit THEN st.doc_id + 1 ELSE st.doc_id,
                   file_i |-> IF flush THEN st.file_i + 1 ELSE st.file_i,
                   file_text |-> IF flush THEN <<>> ELSE file_text,
                   map |-> IF emit THEN update(st.map, [d \in {st.doc_id} |-> st.file_i])
                           ELSE st.map,
                   written |-> IF flush /\ ~failed
                               THEN update(st.written, [f \in {st.file_i} |-> file_text])
                               ELSE st.written,
                   raised |-> IF failed THEN "AssertionError" ELSE st.raised]
       IN IF failed \/ num_read >= n THEN st1
          ELSE WikipediaLines(text, n, characters_for_1_file, first_forbidden_out_file_i, st1)

\* preprocess_wikipedia for the worker of rank k (1-based here)
preprocess_wikipedia(text, borders, n, start_out_file_i, first_forbidden_out_file_i, num_out_files, start_doc_id) ==
    LET st0 == [pos |-> SeekPos(text, borders[1]), num_read_characters |-> 0,
                total_in_current_file |-> 0, page_in_progress |-> FALSE, page_start |-> 0,
                page |-> <<>>, doc_id |-> start_doc_id, file_i |-> start_out_file_i,
                file_text |-> <<>>, map |-> EmptyMap, written |-> EmptyMap, raised |-> "no"]
    IN IF num_out_files = 0
       THEN [st0 EXCEPT !.raised = "ZeroDivisionError"]
       ELSE LET st == WikipediaLines(text, n, n \div num_out_files,
                                     first_forbidden_out_file_i, st0)
            IN IF st.raised # "no" \/ st.total_in_current_file = 0 THEN st
               ELSE IF ~(st.file_i < first_forbidden_out_file_i)
               THEN [st EXCEPT !.raised = "AssertionError"]
               ELSE [st EXCEPT !.written = update(@, [f \in {st.file_i} |-> st.file_text])]

\* One task of pool.starmap(preprocess_wikipedia, ...); its files reach the disk.
PoolWorker(k) ==
    /\ machine = "borders"
    /\ bpc = "pool"
    /\ result[k] = Pending
    /\ LET r == preprocess_wikipedia(file, byte_borders[k], num_characters_in_part[k],
                                     out_file_ids(0)[k], out_file_ids(0)[k + 1],
                                     num_output_files[k], start_doc_ids(0)[k])
       IN /\ result' = [result EXCEPT ![k] = [raised |-> r.raised, map |-> r.map]]
          /\ documents' = update(documents, r.written)
    /\ UNCHANGED <<machine, file, num_parts, bpc, part_i, fpos, last_byte_border,
                   total_characters_read, remainder, byte_borders, num_characters_in_part,
                   max_num_characters_in_1_file, doc_id_to_file_i, notBorders>>

\* result[0].update(result[i]) for i = 1, 2, ...
RECURSIVE MergeResults(_, _)
MergeResults(res, k) ==
    IF k = 1 THEN res[1].map ELSE update(MergeResults(res, k - 1), res[k].map)

\* The pool returns: an exception of a worker leaves starmap, otherwise the
\* partial maps are merged in task order.
PoolReturns ==
    /\ machine = "borders"
    /\ bpc = "pool"
    /\ \A k \in 1..num_parts : result[k] # Pending
    /\ IF \E k \in 1..num_parts : result[k].raised # "no"
       THEN /\ bpc' = "raised"
            /\ UNCHANGED doc_id_to_file_i
       ELSE /\ bpc' = "done"
            /\ doc_id_to_file_i' = MergeResults(result, num_parts)
    /\ UNCHANGED <<machine, file, num_parts, part_i, fpos, last_byte_border,
                   total_characters_read, remainder, byte_borders, num_characters_in_part,
                   result, max_num_characters_in_1_file, documents, notBorders>>

NextBorders ==
    \/ get_borders_with_documents_intact
    \/ \E k \in 1..num_parts : PoolWorker(k)
    \/ PoolReturns

SpecBorders == InitBorders /\ [][NextBorders]_vars

----------------------------------------------------------------------------
(* C1: for every file and every num_parts >= 1, get_borders_with_documents_intact
   returns num_parts byte ranges; the first starts at byte 0, every later one
   starts where the previous one ends, and the last ends at the end of the
   file. *)
C1_BordersCoverFile ==
    (machine = "borders" /\ bpc # "borders") =>
        /\ Len(byte_borders) = num_parts
        /\ byte_borders[1][1] = 0
        /\ \A k \in 2..num_parts : byte_borders[k][1] = byte_borders[k - 1][2]
        /\ byte_borders[num_parts][2] = encode_len(file)

\* The file positions at which a page block starts
PagePositions == {k \in 0..Len(file) : StartsWithAt(file, PAGE_OPEN, k)}

\* In how many places of the shard directory the page that starts at pg is stored
TimesStored(pg) ==
    Cardinality({fj \in (DOMAIN documents) \X (1..Len(file)) :
                    /\ fj[2] <= Len(documents[fj[1]])
                    /\ documents[fj[1]][fj[2]].page = pg})

(* C2: for a file made of well-formed page blocks and every number of jobs,
   once every worker has processed its range, every page block has been
   emitted as a document exactly once: none is lost, none is emitted twice. *)
C2_EveryPageEmittedOnce ==
    (machine = "borders" /\ bpc \in {"done", "raised"} /\ file \in WellFormedFiles) =>
        \A pg \in PagePositions : TimesStored(pg) = 1

----------------------------------------------------------------------------
(* main: the extraction loop, with corpora of type wiki-extracted *)

\* A piece of text.split('</doc>') is one of:
\*   "text"    matches WIKI_EXTRACTED_NOT_EMPTY_DOC and keeps text after cleaning
\*   "cleaned" matches WIKI_EXTRACTED_NOT_EMPTY_DOC and is empty after cleaning
\*   "title"   a document with a title only: WIKI_EXTRACTED_NOT_EMPTY_DOC does not match
\*   "tail"    what follows the last '</doc>' of the file
DocKinds == {"text", "cleaned", "title"}

RECURSIVE SeqsUpTo(_, _)
SeqsUpTo(S, k) ==
    IF k = 0 THEN {<<>>}
    ELSE LET shorter == SeqsUpTo(S, k - 1)
         IN shorter \cup {Append(q, x) : q \in shorter, x \in S}

\* The pieces of the files a WikiExtractor run can leave in a directory
ExtractedFiles == {Append(docs, "tail") : docs \in SeqsUpTo(DocKinds, MaxDocsInFile)}

Corpora == SeqsUpTo(ExtractedFiles, MaxFilesInCorpus)

\* WIKI_EXTRACTED_NOT_EMPTY_DOC.match(doc.lstrip())
NotEmptyDoc(kind) == kind \in {"text", "cleaned"}

\* count_not_empty_docs_in_file
count_not_empty_docs_in_file(docs) ==
    Cardinality({j \in 1..Len(docs) : NotEmptyDoc(docs[j])})

\* The loop of WikiExtractedWorker.__call__ over docs[j..]: prepared_docs in
\* the order of insertion.  enumerate(docs, start=start) numbers every piece.
RECURSIVE PreparedDocs(_, _, _, _, _)
PreparedDocs(docs, j, start, source, prepared) ==
    IF j > Len(docs) THEN prepared
    ELSE PreparedDocs(docs, j + 1, start, source,
             IF NotEmptyDoc(docs[j]) /\ docs[j] = "text"
             THEN Append(prepared, [id |-> start + (j - 1), page |-> Append(source, j)])
             ELSE prepared)

WikiExtractedFileIds == [i \in 1..Len(corpus) |-> main_start_file_id + (i - 1)]

WikiExtractedStartDocIds ==
    accumulate([i \in 1..Len(corpus) |-> count_not_empty_docs_in_file(corpus[i])],
               main_start_doc_id)

\* The dictionary preprocess_wiki_extracted returns
WikiExtractedMap ==
    LET ids == WikiExtractedStartDocIds
        owner(d) == CHOOSE i \in 1..Len(corpus) : ids[i] <= d /\ d < ids[i + 1]
    IN [d \in {d \in ids[1]..(ids[Len(corpus) + 1] - 1) : TRUE} |->
            WikiExtractedFileIds[owner(d)]]

MaxOf(S) == CHOOSE x \in S : \A y \in S : y <= x

RangeOf(f) == {f[k] : k \in DOMAIN f}

InitExtract ==
    /\ machine = "extract"
    /\ epc = "main"
    /\ corpus = <<>>
    /\ corpus_i = 0
    /\ main_start_doc_id = 0
    /\ main_start_file_id = 0
    /\ pending = {}
    /\ documents = EmptyMap
    /\ doc_id_to_file_i = EmptyMap
    /\ IdleBorders
    /\ IdleMerge
    /\ IdleAlloc
    /\ IdleDev
    /\ IdleCut
    /\ IdleEuroparl
    /\ IdleUn
    /\ IdleProgress
    /\ IdleDriver

\* main reaches a corpus of the list and preprocess_wiki_extracted starts its pool.
preprocess_wiki_extracted ==
    /\ machine = "extract"
    /\ epc = "main"
    /\ corpus_i < MaxCorpora
    /\ \E c \in Corpora :
        /\ corpus' = c
        /\ pending' = 1..Len(c)
    /\ epc' = "pool"
    /\ UNCHANGED <<machine, corpus_i, main_start_doc_id, main_start_file_id, varsStore, notExtract>>

\* One task of the pool: WikiExtractedWorker.__call__(input_file, file_id, start_doc_id)
WikiExtractedWorker(i) ==
    /\ machine = "extract"
    /\ epc = "pool"
    /\ i \in pending
    /\ documents' = update(documents,
            [f \in {WikiExtractedFileIds[i]} |->
                PreparedDocs(corpus[i], 1, WikiExtractedStartDocIds[i], <<corpus_i, i>>, <<>>)])
    /\ pending' = pending \ {i}
    /\ UNCHANGED <<machine, epc, corpus, corpus_i, main_start_doc_id, main_start_file_id,
                   doc_id_to_file_i, notExtract>>

\* preprocess_wiki_extracted returns its map; main lines 2018-2020.
main_update ==
    /\ machine = "extract"
    /\ epc = "pool"
    /\ pending = {}
    /\ LET corpus_doc_id_to_file_i == WikiExtractedMap
       IN IF DOMAIN corpus_doc_id_to_file_i = {}
          THEN \* max() of an empty sequence: ValueError
               /\ epc' = "raised"
               /\ UNCHANGED <<doc_id_to_file_i, main_start_doc_id, main_start_file_id, corpus_i>>
          ELSE /\ epc' = "main"
               /\ doc_id_to_file_i' = update(doc_id_to_file_i, corpus_doc_id_to_file_i)
               /\ main_start_doc_id' = MaxOf(DOMAIN corpus_doc_id_to_file_i) + 1
               /\ main_start_file_id' = MaxOf(RangeOf(corpus_doc_id_to_file_i)) + 1
               /\ corpus_i' = corpus_i + 1
    /\ UNCHANGED <<machine, corpus, pending, documents, notExtract>>

\* The list of corpora is exhausted.
extraction_done ==
    /\ machine = "extract"
    /\ epc = "main"
    /\ corpus_i >= 1
    /\ epc' = "done"
    /\ UNCHANGED <<machine, corpus, corpus_i, main_start_doc_id, main_start_file_id, pending,
                   varsStore, notExtract>>

NextExtract ==
    \/ preprocess_wiki_extracted
    \/ \E i \in 1..MaxFilesInCorpus : WikiExtractedWorker(i)
    \/ main_update
    \/ extraction_done

SpecExtract == InitExtract /\ [][NextExtract]_vars

\* The documents stored in the shard directory, as <<shard, position>>
StoredDocs ==
    {fj \in (DOMAIN documents) \X (1..(MaxDocsInFile + 1)) : fj[2] <= Len(documents[fj[1]])}

(* C3: after the extraction stage no two documents stored in the shard
   directory (in the same shard or in different shards, from the same corpus
   or from different corpora) have the same document ID. *)
C3_DocumentIdsUnique ==
    (machine = "extract" /\ epc = "done") =>
        \A a \in StoredDocs : \A b \in StoredDocs :
            a # b => documents[a[1]][a[2]].id # documents[b[1]][b[2]].id

----------------------------------------------------------------------------
(* preprocess_pg19 and merge_small_files *)

\* A book is the number of bytes its document takes in a shard; 0 is a book
\* whose text is empty after cleaning.
Books == SeqsUpTo(0..MaxBookSize, MaxBooks) \ {<<>>}

\* The shards an earlier corpus of the list left in document_dir: one
\* document in each, IDs and shard indices counted from 0.
EarlierShards == SeqsUpTo(1..MaxBookSize, MaxEarlierShards)

\* f.stat().st_size
st_size(docs) == SumSeq([j \in 1..Len(docs) |-> docs[j].size])

\* sorted([f for f in document_dir.iterdir() if ...], key=lambda x: int(x.stem))
RECURSIVE SortedFiles(_)
SortedFiles(S) ==
    IF S = {} THEN <<>>
    ELSE LET m == CHOOSE x \in S : \A y \in S : x <= y
         IN <<m>> \o SortedFiles(S \ {m})

\* reverse_doc_id_to_file_i
reverse_doc_id_to_file_i(map) ==
    [v \in RangeOf(map) |-> SortedFiles({k \in DOMAIN map : map[k] = v})]

\* rev_rev_doc_id_to_file_i
rev_rev_doc_id_to_file_i(r) ==
    [vv \in UNION {RangeOf(r[k]) : k \in DOMAIN r} |->
        CHOOSE k \in DOMAIN r : vv \in RangeOf(r[k]) /\ \A k2 \in DOMAIN r : (vv \in RangeOf(r[k2])) => k2 <= k]

\* dict(zip(doc_ids, file_ids)) of preprocess_pg19
Pg19Map ==
    [d \in main_start_doc_id..(main_start_doc_id + Len(pg19_files) - 1) |->
        main_start_file_id + (d - main_start_doc_id)]

\* del d[k]
Remove(d, k) == [x \in (DOMAIN d) \ {k} |-> d[x]]

\* if curr_size >= max_size
ShardIsFull_never(size, limit) == FALSE

ShardIsFull(size, limit) == size >= limit

\* rev[curr_file_i] += rev[file_i]; del rev[file_i]
MergeRev_forgets(r, curr, file_i) == Remove(r, file_i)

MergeRev(r, curr, file_i) == Remove([r EXCEPT ![curr] = r[curr] \o r[file_i]], file_i)

InitMerge ==
    /\ machine = "merge"
    /\ mpc = "pool"
    /\ pg19_files \in Books
    /\ pending = 1..Len(pg19_files)
    /\ \E earlier \in EarlierShards :
        /\ documents = [f \in 0..(Len(earlier) - 1) |-> <<[id |-> f, size |-> earlier[f + 1]]>>]
        /\ doc_id_to_file_i = [d \in 0..(Len(earlier) - 1) |-> d]
        /\ main_start_doc_id = Len(earlier)
        /\ main_start_file_id = Len(earlier)
    /\ epc = "idle" /\ corpus = <<>> /\ corpus_i = 0
    /\ rev = EmptyMap /\ files = <<>> /\ stats = <<>>
    /\ max_size = 0 /\ merge_i = 0 /\ curr_file_i = 0 /\ curr_size = 0
    /\ merge_input = EmptyMap /\ documents_before = EmptyMap
    /\ IdleBorders
    /\ IdleAlloc
    /\ IdleDev
    /\ IdleCut
    /\ IdleEuroparl
    /\ IdleUn
    /\ IdleProgress
    /\ IdleDriver

\* One task of the pool of preprocess_pg19
PG19Worker(idx) ==
    /\ machine = "merge"
    /\ mpc = "pool"
    /\ idx \in pending
    /\ pending' = pending \ {idx}
    /\ documents' =
        IF pg19_files[idx] = 0
        THEN documents      \* if not text.strip(): return
        ELSE update(documents,
                [f \in {main_start_file_id + (idx - 1)} |->
                    <<[id |-> main_start_doc_id + (idx - 1), size |-> pg19_files[idx]]>>])
    /\ UNCHANGED <<machine, notMerge, varsMerge, doc_id_to_file_i, epc, corpus, corpus_i,
                   main_start_doc_id, main_start_file_id>>

\* merge_small_files up to its loop (lines 979-988)
merge_small_files ==
    /\ machine = "merge"
    /\ mpc = "pool"
    /\ pending = {}
    /\ merge_input' = Pg19Map
    /\ documents_before' = documents
    /\ rev' = reverse_doc_id_to_file_i(Pg19Map)
    /\ files' = SortedFiles(DOMAIN documents)
    /\ stats' = [k \in 1..Cardinality(DOMAIN documents) |-> st_size(documents[files'[k]])]
    /\ IF DOMAIN documents = {}
       THEN \* max() of an empty list: ValueError
            /\ mpc' = "raised"
            /\ UNCHANGED <<max_size, merge_i, curr_file_i, curr_size>>
       ELSE /\ mpc' = "loop"
            /\ max_size' = MaxOf(RangeOf(stats'))
            /\ curr_file_i' = files'[1]
            /\ curr_size' = stats'[1]
            /\ merge_i' = 1
    /\ UNCHANGED <<machine, notMerge, varsExtract, varsStore, pg19_files>>

\* One iteration of the loop of merge_small_files (lines 989-1003)
merge_small_files_iteration ==
    /\ machine = "merge"
    /\ mpc = "loop"
    /\ merge_i < Len(files)
    /\ LET i == merge_i + 1
           file_i == files[i]
       IN IF ShardIsFull(curr_size, max_size)
          THEN /\ curr_file_i' = file_i
               /\ curr_size' = stats[i]
               /\ merge_i' = merge_i + 1
               /\ UNCHANGED <<mpc, rev, documents>>
          ELSE IF curr_file_i \notin DOMAIN rev \/ file_i \notin DOMAIN rev
          THEN \* KeyError, after curr_fo.write(f.read())
               /\ mpc' = "raised"
               /\ documents' = [documents EXCEPT ![curr_file_i] = @ \o documents[file_i]]
               /\ UNCHANGED <<rev, curr_file_i, curr_size, merge_i>>
          ELSE /\ documents' = Remove([documents EXCEPT ![curr_file_i] = @ \o documents[file_i]], file_i)
               /\ curr_size' = curr_size + stats[i]
               /\ rev' = MergeRev(rev, curr_file_i, file_i)
               /\ merge_i' = merge_i + 1
               /\ UNCHANGED <<mpc, curr_file_i>>
    /\ UNCHANGED <<machine, notMerge, varsExtract, doc_id_to_file_i, pg19_files, files, stats,
                   max_size, merge_input, documents_before>>

\* merge_small_files returns; main line 2018
merge_small_files_return ==
    /\ machine = "merge"
    /\ mpc = "loop"
    /\ merge_i = Len(files)
    /\ mpc' = "done"
    /\ doc_id_to_file_i' = update(doc_id_to_file_i, rev_rev_doc_id_to_file_i(rev))
    /\ UNCHANGED <<machine, notMerge, varsExtract, documents, pg19_files, rev, files, stats,
                   max_size, merge_i, curr_file_i, curr_size, merge_input, documents_before>>

NextMerge ==
    \/ \E idx \in 1..MaxBooks : PG19Worker(idx)
    \/ merge_small_files
    \/ merge_small_files_iteration
    \/ merge_small_files_return

SpecMerge == InitMerge /\ [][NextMerge]_vars

\* The places <<shard, position>> of the directory dir that hold document d
PlacesOf(dir, d) ==
    {fj \in (DOMAIN dir) \X (1..(MaxBooks + MaxEarlierShards)) :
        fj[2] <= Len(dir[fj[1]]) /\ dir[fj[1]][fj[2]].id = d}

\* The map merge_small_files returned
MergeReturned == rev_rev_doc_id_to_file_i(rev)

\* Every entry of the input map refers to a shard file of the directory
EntriesReferToShards ==
    \A d \in DOMAIN merge_input : merge_input[d] \in DOMAIN documents_before

(* C4: when every entry of the input map refers to an existing shard file,
   the map merge_small_files returns has exactly the document IDs of the
   input, and each ID maps to a shard file that exists after the merge and
   holds the document with the content it had before the merge, in one
   place only. *)
C4_MergeKeepsDocumentIds ==
    (machine = "merge" /\ mpc = "done" /\ EntriesReferToShards) =>
        /\ DOMAIN MergeReturned = DOMAIN merge_input
        /\ \A d \in DOMAIN merge_input :
            /\ MergeReturned[d] \in DOMAIN documents
            /\ \E j \in 1..Len(documents[MergeReturned[d]]) :
                /\ documents[MergeReturned[d]][j].id = d
                /\ documents[MergeReturned[d]][j] \in RangeOf(documents_before[merge_input[d]])
            /\ Cardinality(PlacesOf(documents, d)) = 1

\* A merge that moved a document of the input map to another shard
C4_Witness ==
    /\ machine = "merge" /\ mpc = "done" /\ EntriesReferToShards
    /\ \E d \in DOMAIN merge_input : MergeReturned[d] # merge_input[d]
    /\ \E d \in DOMAIN merge_input : MergeReturned[d] = merge_input[d]

(* C5 as stated: after merge_small_files no surviving shard file is larger
   than the largest shard size of the directory before the merge. *)
C5_NoShardLargerThanMax ==
    (machine = "merge" /\ mpc = "done") =>
        \A f \in DOMAIN documents : st_size(documents[f]) <= max_size

(* C5 amended: after merge_small_files every surviving shard file is smaller
   than twice the largest shard size of the directory before the merge (a
   shard that received nothing keeps its size, which is at most that maximum). *)
C5_ShardBelowTwiceMax ==
    (machine = "merge" /\ mpc = "done") =>
        \A f \in DOMAIN documents :
            \/ st_size(documents[f]) < 2 * max_size
            \/ /\ st_size(documents[f]) <= max_size
               /\ documents[f] = documents_before[f]

\* A merge that left a shard larger than the largest shard before the merge
C5_Witness ==
    /\ machine = "merge" /\ mpc = "done"
    /\ \E f \in DOMAIN documents : st_size(documents[f]) > max_size

----------------------------------------------------------------------------
(* get_how_many_segments_to_cut_by_files *)

\* round(f * size) for f = s / total_size: Python rounds halves to even
round(num, den) ==
    LET q == num \div den
        r == num % den
    IN IF 2 * r < den THEN q
       ELSE IF 2 * r > den THEN q + 1
       ELSE IF q % 2 = 0 THEN q ELSE q + 1

\* random.sample(list(range(n)), n), as indices 1..n
SamplesOfRange(n) == {q \in [1..n -> 1..n] : \A a \in 1..n : \E b \in 1..n : q[b] = a}

\* sizes after lines 1720 and 1727-1729
CappedSizes(st, size, maxs) ==
    [i \in 1..Len(st) |-> Min(round(st[i] * size, SumSeq(st)), maxs[i])]

\* The while loop of lines 1734-1738
RECURSIVE DecreaseLoop(_, _, _, _, _)
DecreaseLoop(sizes, sum_, size, permutation, i) ==
    IF sum_ > size /\ i <= Len(permutation)
    THEN IF sizes[permutation[i]] > 0
         THEN DecreaseLoop([sizes EXCEPT ![permutation[i]] = @ - 1], sum_ - 1, size, permutation, i + 1)
         ELSE DecreaseLoop(sizes, sum_, size, permutation, i + 1)
    ELSE sizes

\* The for loop of lines 1744-1751, from position k of the permutation
RECURSIVE IncreasePass(_, _, _, _, _, _, _)
IncreasePass(sizes, sum_, size, maxs, permutation, k, was_increase) ==
    IF k > Len(permutation)
    THEN [sizes |-> sizes, sum_ |-> sum_, was_increase |-> was_increase, failed |-> FALSE]
    ELSE LET j == permutation[k]
         IN IF sizes[j] < maxs[j]
            THEN IF sum_ + 1 >= size
                 THEN [sizes |-> [sizes EXCEPT ![j] = @ + 1], sum_ |-> sum_ + 1,
                       was_increase |-> TRUE, failed |-> sum_ + 1 # size]
                 ELSE IncreasePass([sizes EXCEPT ![j] = @ + 1], sum_ + 1, size, maxs,
                                   permutation, k + 1, TRUE)
            ELSE IncreasePass(sizes, sum_, size, maxs, permutation, k + 1, was_increase)

\* The while loop of lines 1742-1751
RECURSIVE IncreaseLoop(_, _, _, _, _, _)
IncreaseLoop(sizes, sum_, size, maxs, permutation, was_increase) ==
    IF sum_ < size /\ was_increase
    THEN LET pass == IncreasePass(sizes, sum_, size, maxs, permutation, 1, FALSE)
         IN IF pass.failed THEN pass
            ELSE IncreaseLoop(pass.sizes, pass.sum_, size, maxs, permutation, pass.was_increase)
    ELSE [sizes |-> sizes, sum_ |-> sum_, was_increase |-> was_increase, failed |-> FALSE]

\* The final assertions, lines 1758-1760
Asserted(sizes, n, size) ==
    IF Len(sizes) = n /\ (\A i \in 1..Len(sizes) : sizes[i] >= 0) /\ SumSeq(sizes) = size
    THEN [raised |-> "none", sizes |-> sizes]
    ELSE [raised |-> "AssertionError", sizes |-> <<>>]

\* get_how_many_segments_to_cut_by_files, given the answers of the pool of
\* GetMaxAllowedSegmentsPerFileWorker and the permutation random.sample draws
HowManySegments(st, size, maxs, permutation) ==
    IF Len(st) > 0 /\ SumSeq(st) = 0
    THEN [raised |-> "ZeroDivisionError", sizes |-> <<>>]
    ELSE LET sizes == CappedSizes(st, size, maxs)
             sum_ == SumSeq(sizes)
         IN IF sum_ > size
            THEN Asserted(DecreaseLoop(sizes, sum_, size, permutation, 1), Len(st), size)
            ELSE IF sum_ < size
            THEN LET inc == IncreaseLoop(sizes, sum_, size, maxs, permutation, TRUE)
                 IN IF inc.failed THEN [raised |-> "AssertionError", sizes |-> <<>>]
                    ELSE IF inc.sum_ < size THEN [raised |-> "ValueError", sizes |-> <<>>]
                    ELSE Asserted(inc.sizes, Len(st), size)
            ELSE Asserted(sizes, Len(st), size)

InitAlloc ==
    /\ machine = "alloc"
    /\ apc = "call"
    /\ alloc_stats \in SeqsUpTo(0..MaxShardBytes, MaxShards)
    /\ alloc_size \in 0..MaxSegments
    /\ max_possible_segments_per_file \in [1..Len(alloc_stats) -> 0..MaxAllowedSegments]
    /\ \A i \in 1..Len(alloc_stats) : alloc_stats[i] = 0 => max_possible_segments_per_file[i] = 0
    /\ alloc_result = <<>>
    /\ documents = EmptyMap
    /\ doc_id_to_file_i = EmptyMap
    /\ IdleBorders
    /\ IdleExtract
    /\ IdleMerge
    /\ IdleDev
    /\ IdleCut
    /\ IdleEuroparl
    /\ IdleUn
    /\ IdleProgress
    /\ IdleDriver

get_how_many_segments_to_cut_by_files ==
    /\ machine = "alloc"
    /\ apc = "call"
    /\ \E permutation \in SamplesOfRange(Len(alloc_stats)) :
        alloc_result' = HowManySegments(alloc_stats, alloc_size, max_possible_segments_per_file, permutation)
    /\ apc' = IF alloc_result'.raised = "none" THEN "returned" ELSE "raised"
    /\ UNCHANGED <<machine, alloc_stats, alloc_size, max_possible_segments_per_file, varsStore,
                   notAlloc>>

NextAlloc == get_how_many_segments_to_cut_by_files

SpecAlloc == InitAlloc /\ [][NextAlloc]_vars

(* C6: for every list of files, every size >= 0 and every vector of per-file
   maxima, get_how_many_segments_to_cut_by_files either returns one entry per
   file, the entries summing to size and entry i within
   0..max_possible_segments_per_file[i], or raises ValueError; and it raises
   exactly when the sum of the per-file maxima is smaller than size. *)
C6_AllocationExactOrValueError ==
    (machine = "alloc" /\ apc # "call") =>
        /\ \/ alloc_result.raised = "ValueError"
           \/ /\ alloc_result.raised = "none"
              /\ Len(alloc_result.sizes) = Len(alloc_stats)
              /\ SumSeq(alloc_result.sizes) = alloc_size
              /\ \A i \in 1..Len(alloc_stats) :
                    /\ 0 <= alloc_result.sizes[i]
                    /\ alloc_result.sizes[i] <= max_possible_segments_per_file[i]
        /\ (alloc_result.raised # "none") <=> (SumSeq(max_possible_segments_per_file) < alloc_size)

----------------------------------------------------------------------------
(* extract_dev_text_segments: the dev/test extraction stage *)

\* A document of a shard is [id, lines, nl]: lines[i] is count_words of line
\* i of its text, nl tells whether the text ends with a line break (PG19Worker
\* and PubMedWorker store texts that do, WikiExtractedWorker texts that do not).
\* A written document has one more field, kept: the indices its lines had in
\* the document it was made from.
DevTexts == SeqsUpTo(1..MaxWords, MaxLines) \ {<<>>}

\* The texts of the documents of one shard
DevShardTexts == SeqsUpTo(DevTexts, MaxDevDocs) \ {<<>>}

\* The directories: at most MaxDevShards shards, MaxDirDocs documents in all
DevDirectories ==
    {dir \in SeqsUpTo(DevShardTexts, MaxDevShards) \ {<<>>} :
        SumSeq([k \in 1..Len(dir) |-> Len(dir[k])]) <= MaxDirDocs}

\* doc['text'].splitlines()
splitlines(doc) == doc.lines

\* big.read_docs_from_file(file)[0]: the documents that were written to the
\* shard, with the texts they were written with
read_docs_from_file(shard) == shard

\* sentences, doc_ids and sent_indices of lines 1522-1533: one entry for every
\* line of every document of the shard
RECURSIVE SentenceTable(_, _)
SentenceTable(docs, k) ==
    IF k = 0 THEN <<>>
    ELSE SentenceTable(docs, k - 1) \o
         [i \in 1..Len(splitlines(docs[k])) |->
            [words |-> splitlines(docs[k])[i], doc |-> k, sent_index |-> i - 1]]

\* '\n'.join([doc['text'] for doc in docs]).splitlines(), as word counts: a
\* text that ends with a line break leaves an empty line before the next text
RECURSIVE JoinedSentences(_, _)
JoinedSentences(docs, k) ==
    IF k = 0 THEN <<>>
    ELSE JoinedSentences(docs, k - 1)
         \o (IF k > 1 /\ docs[k - 1].nl THEN <<0>> ELSE <<>>)
         \o splitlines(docs[k])

\* The while loop of lines 1479-1481 and 1694-1696; sent_i counts from 0
RECURSIVE TailLoop(_, _, _, _)
TailLoop(words, sent_i, num_words, max_length) ==
    IF sent_i >= 0 /\ num_words < max_length
    THEN TailLoop(words, sent_i - 1, num_words + words[sent_i + 1], max_length)
    ELSE [sent_i |-> sent_i, num_words |-> num_words]

get_max_allowed_segments_for_text(words, max_segment_length) ==
    LET tail == TailLoop(words, Len(words) - 1, 0, max_segment_length)
    IN IF tail.num_words < max_segment_length THEN 0 ELSE tail.sent_i + 1

\* GetMaxAllowedSegmentsPerFileWorker.__call__
GetMaxAllowedSegmentsPerFileWorker(shard, max_segment_length) ==
    LET docs == read_docs_from_file(shard)
    IN get_max_allowed_segments_for_text(JoinedSentences(docs, Len(docs)), max_segment_length)

\* generate_segment_location: the lists random.sample can give, or the error
generate_segment_location(words, max_length, num_segments) ==
    LET tail == TailLoop(words, Len(words) - 1, 0, max_length)
    IN IF num_segments < 0 THEN [raised |-> "ValueError", choices |-> {}]
       ELSE IF num_segments = 0 THEN [raised |-> "none", choices |-> {<<>>}]
       ELSE IF tail.num_words < max_length THEN [raised |-> "ValueError", choices |-> {}]
       ELSE IF num_segments > tail.sent_i + 1 THEN [raised |-> "ValueError", choices |-> {}]
       ELSE [raised |-> "none",
             choices |-> {SortedFiles(S) : S \in {T \in SUBSET (0..tail.sent_i) : Cardinality(T) = num_segments}}]

\* The while loop of lines 1546-1548: the number of sentences of the window,
\* or -1 when sentences[...] is indexed beyond its end
RECURSIVE NumSentencesForSegment(_, _, _, _, _)
NumSentencesForSegment(words, sentence_i, need, num_words_raw, n) ==
    IF num_words_raw < need
    THEN IF sentence_i + n >= Len(words) THEN -1
         ELSE NumSentencesForSegment(words, sentence_i, need, num_words_raw + words[sentence_i + n + 1], n + 1)
    ELSE n

\* The words of ' '.join(sentences[a : a + n]) as <<sentence, word>> pairs
WordsOfWindow_start_only(words, a, n) == [w \in 1..(n * words[a + 1]) |-> <<a, (w - 1) % words[a + 1]>>]

RECURSIVE WordsOfWindow(_, _, _)
WordsOfWindow(words, a, n) ==
    IF n = 0 THEN <<>>
    ELSE WordsOfWindow(words, a, n - 1) \o [w \in 1..words[a + n] |-> <<a + n - 1, w - 1>>]

\* cut_segment(text, shift, num_words_in_segment): the matches of text that
\* are added to the segment
cut_segment_one_more(text, shift, num_words_in_segment) == SubSeq(text, shift + 1, Min(shift + num_words_in_segment + 1, Len(text)))

cut_segment(text, shift, num_words_in_segment) ==
    SubSeq(text, shift + 1, Min(shift + num_words_in_segment, Len(text)))

\* The while loop of lines 1540-1564
RECURSIVE CutLoop(_, _, _, _, _, _, _)
CutLoop(words, start_sentences, segment_lengths, shifts, sentence_i, curr_segment_i, segments) ==
    IF sentence_i >= Len(words) THEN [raised |-> "none", segments |-> segments]
    ELSE IF curr_segment_i < Len(start_sentences) /\ sentence_i = start_sentences[curr_segment_i + 1]
    THEN LET shift == shifts[curr_segment_i + 1]
             length == segment_lengths[curr_segment_i + 1]
             n == NumSentencesForSegment(words, sentence_i, shift + length, 0, 0)
         IN IF n < 0 THEN [raised |-> "IndexError", segments |-> segments]
            ELSE CutLoop(words, start_sentences, segment_lengths, shifts, sentence_i + 1,
                         curr_segment_i + 1,
                         Append(segments,
                                [start |-> sentence_i, num_sentences |-> n, shift |-> shift,
                                 length |-> length,
                                 words |-> cut_segment(WordsOfWindow(words, sentence_i, n), shift, length)]))
    ELSE CutLoop(words, start_sentences, segment_lengths, shifts, sentence_i + 1,
                 curr_segment_i, segments)

\* docs[doc_ids[sentence_i + i]]['to_exclude'] after the loop, for document k
to_exclude_first_only(table, segments, k) == {table[segments[j].start + 1].sent_index : j \in {j \in 1..Len(segments) : table[segments[j].start + 1].doc = k}}

to_exclude(table, segments, k) ==
    {table[g + 1].sent_index :
        g \in {g \in 0..(Len(table) - 1) :
                /\ table[g + 1].doc = k
                /\ \E j \in 1..Len(segments) :
                    g \in segments[j].start..(segments[j].start + segments[j].num_sentences - 1)}}

\* [i for i, line in enumerate(doc['lines']) if i not in doc['to_exclude']]
RECURSIVE KeptLines(_, _, _)
KeptLines(n, excluded, i) ==
    IF i >= n THEN <<>>
    ELSE (IF i \in excluded THEN <<>> ELSE <<i>>) \o KeptLines(n, excluded, i + 1)

\* filtered_docs of lines 1565-1573
RECURSIVE FilteredDocs(_, _, _, _)
FilteredDocs(docs, table, segments, k) ==
    IF k = 0 THEN <<>>
    ELSE LET kept == KeptLines(Len(splitlines(docs[k])), to_exclude(table, segments, k), 0)
         IN FilteredDocs(docs, table, segments, k - 1) \o
            (IF kept = <<>> THEN <<>>
             ELSE <<[id |-> docs[k].id,
                     lines |-> [i \in 1..Len(kept) |-> splitlines(docs[k])[kept[i] + 1]],
                     nl |-> TRUE,
                     kept |-> kept]>>)

\* One length more for every file than the file was allocated
get_segment_lengths_by_files_one_more(num_by_files, range) == [i \in 1..Len(num_by_files) |-> [j \in 1..(num_by_files[i] + 1) |-> range[1]]]

\* get_segment_lengths_by_files
get_segment_lengths_by_files(num_by_files, range) ==
    LET all_lengths == [i \in 1..(range[2] - range[1]) |-> range[1] + i - 1]
    IN [i \in 1..Len(num_by_files) |->
            [j \in 1..num_by_files[i] |->
                all_lengths[((PrefixSum(num_by_files, i - 1) + j - 1) % Len(all_lengths)) + 1]]]

\* f.stat().st_size of a shard: a line break after every word and two tags
\* around every document
shard_bytes(docs) ==
    SumSeq([k \in 1..Len(docs) |-> 2 + SumSeq(splitlines(docs[k]))])

\* A task of the pool of extract_dev_text_segments that has not returned yet
DevPending == [raised |-> "pending", segments |-> <<>>]

\* files, in the order of document_dir.iterdir()
DevFiles == SortedFiles(DOMAIN documents)

\* The number of documents before shard k of the directory dir
DocsBefore(dir, k) == SumSeq([j \in 1..(k - 1) |-> Len(dir[j])])

InitDev ==
    /\ machine = "dev"
    /\ dpc = "start"
    /\ \E dir \in DevDirectories : \E nls \in [1..Len(dir) -> BOOLEAN] :
        documents = [f \in 0..(Len(dir) - 1) |->
                        [k \in 1..Len(dir[f + 1]) |->
                            [id |-> DocsBefore(dir, f + 1) + k - 1,
                             lines |-> dir[f + 1][k],
                             nl |-> nls[f + 1]]]]
    /\ doc_id_to_file_i = EmptyMap
    /\ dev_size \in 0..MaxDevSize
    /\ test_size \in 0..MaxTestSize
    /\ dev_size + test_size > 0
    /\ sequence_length_range \in {<<lo, MaxSegmentLength + 1>> : lo \in 1..MaxSegmentLength}
    /\ num_segments_by_files = <<>>
    /\ dev_results = <<>>
    /\ after_extraction_documents = EmptyMap
    /\ dev_text = <<>>
    /\ test_text = <<>>
    /\ IdleBorders
    /\ IdleExtract
    /\ IdleMerge
    /\ IdleAlloc
    /\ IdleCut
    /\ IdleEuroparl
    /\ IdleUn
    /\ IdleProgress
    /\ IdleDriver

\* extract_dev_text_segments up to its pool (lines 1605-1609)
extract_dev_text_segments ==
    /\ machine = "dev"
    /\ dpc = "start"
    /\ \E permutation \in SamplesOfRange(Len(DevFiles)) :
        LET st == [k \in 1..Len(DevFiles) |-> shard_bytes(documents[DevFiles[k]])]
            maxs == [k \in 1..Len(DevFiles) |->
                        GetMaxAllowedSegmentsPerFileWorker(documents[DevFiles[k]], sequence_length_range[2] - 1)]
            r == HowManySegments(st, dev_size + test_size, maxs, permutation)
        IN IF r.raised = "none"
           THEN /\ dpc' = "pool"
                /\ num_segments_by_files' = r.sizes
                /\ dev_results' = [k \in 1..Len(DevFiles) |-> DevPending]
           ELSE /\ dpc' = "raised"
                /\ UNCHANGED <<num_segments_by_files, dev_results>>
    /\ UNCHANGED <<machine, dev_size, test_size, sequence_length_range, after_extraction_documents,
                   dev_text, test_text, varsStore, notDev>>

\* One task of the pool: extract_dev_text_segments_worker on the k-th file
extract_dev_text_segments_worker(k) ==
    /\ machine = "dev"
    /\ dpc = "pool"
    /\ k \in 1..Len(dev_results)
    /\ dev_results[k] = DevPending
    /\ LET docs == read_docs_from_file(documents[DevFiles[k]])
           segment_lengths == get_segment_lengths_by_files(num_segments_by_files, sequence_length_range)[k]
           num_segments == Len(segment_lengths)
           table == SentenceTable(docs, Len(docs))
           words == [g \in 1..Len(table) |-> table[g].words]
       IN IF num_segments = 0
          THEN /\ dev_results' = [dev_results EXCEPT ![k] = [raised |-> "none", segments |-> <<>>]]
               /\ UNCHANGED after_extraction_documents
          ELSE LET location == generate_segment_location(words, MaxOf(RangeOf(segment_lengths)), num_segments)
               IN IF location.raised # "none"
                  THEN /\ dev_results' = [dev_results EXCEPT ![k] = [raised |-> location.raised, segments |-> <<>>]]
                       /\ UNCHANGED after_extraction_documents
                  ELSE \E start_sentences \in location.choices :
                       \E shifts \in [1..num_segments -> 0..(MaxWords \div 2)] :
                         /\ \A j \in 1..num_segments : shifts[j] <= words[start_sentences[j] + 1] \div 2
                         /\ LET cut == CutLoop(words, start_sentences, segment_lengths, shifts, 0, 0, <<>>)
                                filtered_docs == FilteredDocs(docs, table, cut.segments, Len(docs))
                            IN IF cut.raised # "none"
                               THEN /\ dev_results' = [dev_results EXCEPT ![k] = [raised |-> cut.raised, segments |-> <<>>]]
                                    /\ UNCHANGED after_extraction_documents
                               ELSE /\ after_extraction_documents' =
                                        IF filtered_docs # <<>>
                                        THEN update(after_extraction_documents, [f \in {DevFiles[k]} |-> filtered_docs])
                                        ELSE after_extraction_documents
                                    /\ dev_results' = [dev_results EXCEPT ![k] =
                                        IF Len(cut.segments) = num_segments
                                        THEN [raised |-> "none", segments |-> cut.segments]
                                        ELSE [raised |-> "AssertionError", segments |-> <<>>]]
    /\ UNCHANGED <<machine, dpc, dev_size, test_size, sequence_length_range, num_segments_by_files,
                   dev_text, test_text, varsStore, notDev>>

\* list(chain(*result))
RECURSIVE chain(_, _)
chain(results, k) ==
    IF k = 0 THEN <<>> ELSE chain(results, k - 1) \o results[k].segments

\* The pool has finished: lines 1622-1636, or the exception of a task leaves the stage
extract_dev_text_segments_return ==
    /\ machine = "dev"
    /\ dpc = "pool"
    /\ \A k \in 1..Len(dev_results) : dev_results[k] # DevPending
    /\ IF \E k \in 1..Len(dev_results) : dev_results[k].raised # "none"
       THEN /\ dpc' = "raised"
            /\ UNCHANGED <<dev_text, test_text>>
       ELSE LET chained == chain(dev_results, Len(dev_results))
            IN IF Len(chained) # dev_size + test_size
               THEN /\ dpc' = "raised"
                    /\ UNCHANGED <<dev_text, test_text>>
               ELSE /\ dpc' = "done"
                    /\ dev_text' = SubSeq(chained, 1, dev_size)
                    /\ test_text' = SubSeq(chained, dev_size + 1, Len(chained))
    /\ UNCHANGED <<machine, dev_size, test_size, sequence_length_range, num_segments_by_files,
                   dev_results, after_extraction_documents, varsStore, notDev>>

NextDev ==
    \/ extract_dev_text_segments
    \/ \E k \in 1..MaxDevShards : extract_dev_text_segments_worker(k)
    \/ extract_dev_text_segments_return

SpecDev == InitDev /\ [][NextDev]_vars

(* C7: whenever get_how_many_segments_to_cut_by_files has returned an
   allocation, no extract_dev_text_segments_worker fails afterwards: the
   budget infeasibility is raised before anything of the stage is written. *)
C7_NoWorkerFailsAfterAllocation ==
    (machine = "dev" /\ dpc \in {"pool", "done", "raised"} /\ num_segments_by_files # <<>>) =>
        \A k \in 1..Len(dev_results) : dev_results[k].raised \in {"pending", "none"}

\* The shards a task of the pool has cut segments from, as indices of DevFiles
CutShards ==
    {k \in 1..Len(dev_results) : dev_results[k].raised = "none" /\ dev_results[k].segments # <<>>}

\* The sentences, counted over the shard from 0, that give words to segment seg
SentencesOf(seg) == {seg.words[i][1] : i \in 1..Len(seg.words)}

\* The lines of the shard of task k, as [words, doc, sent_index]
TableOf(k) == SentenceTable(documents[DevFiles[k]], Len(documents[DevFiles[k]]))

\* The lines <<position of the document in the shard, index of the line>> of
\* the shard of task k that gave words to a segment
ConsumedLines(k) ==
    {<<TableOf(k)[g + 1].doc, TableOf(k)[g + 1].sent_index>> :
        g \in UNION {SentencesOf(dev_results[k].segments[j]) : j \in 1..Len(dev_results[k].segments)}}

\* The documents of the after-extraction shard of task k made from document d
WrittenFrom(k, d) ==
    IF DevFiles[k] \notin DOMAIN after_extraction_documents THEN {}
    ELSE {doc \in RangeOf(after_extraction_documents[DevFiles[k]]) : doc.id = documents[DevFiles[k]][d].id}

(* C8: after extract_dev_text_segments_worker has processed a shard, no line
   that gave words to a dev/test segment remains in a document of the
   after-extraction shard, and a document all of whose lines were consumed is
   not written. *)
C8_ConsumedLinesRemoved ==
    machine = "dev" =>
        \A k \in CutShards :
            \A d \in 1..Len(documents[DevFiles[k]]) :
                /\ \A doc \in WrittenFrom(k, d) :
                      \A i \in 1..Len(doc.kept) : <<d, doc.kept[i]>> \notin ConsumedLines(k)
                /\ (\A i \in 0..(Len(documents[DevFiles[k]][d].lines) - 1) : <<d, i>> \in ConsumedLines(k))
                      => WrittenFrom(k, d) = {}

\* A shard of which one document lost all its lines and another kept a part of its lines
C8_Witness ==
    /\ machine = "dev"
    /\ \E k \in CutShards :
        /\ \E d \in 1..Len(documents[DevFiles[k]]) :
              /\ WrittenFrom(k, d) = {}
              /\ \A i \in 0..(Len(documents[DevFiles[k]][d].lines) - 1) : <<d, i>> \in ConsumedLines(k)
        /\ \E d \in 1..Len(documents[DevFiles[k]]) :
              /\ \E i \in 0..(Len(documents[DevFiles[k]][d].lines) - 1) : <<d, i>> \in ConsumedLines(k)
              /\ \E doc \in WrittenFrom(k, d) : Len(doc.kept) = Len(documents[DevFiles[k]][d].lines) - 1

(* C9: within one shard the windows of lines consumed by different dev/test
   segments are pairwise disjoint: no line gives words to two segments. *)
C9_WindowsDisjoint ==
    machine = "dev" =>
        \A k \in CutShards :
            \A j1 \in 1..Len(dev_results[k].segments) : \A j2 \in 1..Len(dev_results[k].segments) :
                j1 # j2 =>
                    SentencesOf(dev_results[k].segments[j1]) \cap SentencesOf(dev_results[k].segments[j2]) = {}

(* C10 as stated: every dev/test segment is cut from lines of a single
   document: no segment spans the boundary between two documents. *)
C10_SegmentInOneDocument ==
    machine = "dev" =>
        \A k \in CutShards :
            \A j \in 1..Len(dev_results[k].segments) :
                \A g1 \in SentencesOf(dev_results[k].segments[j]) :
                \A g2 \in SentencesOf(dev_results[k].segments[j]) :
                    TableOf(k)[g1 + 1].doc = TableOf(k)[g2 + 1].doc

\* The word that follows word w in the lines of the shard of task k, read in
\* the order of the documents of the shard
NextWordOfShard(k, w) ==
    IF w[2] + 1 < TableOf(k)[w[1] + 1].words THEN <<w[1], w[2] + 1>> ELSE <<w[1] + 1, 0>>

(* C10 amended: every dev/test segment is cut from consecutive words of
   consecutive lines of a single shard, the lines of the shard taken document
   after document: a segment may go on into the following document of the
   shard. *)
C10_SegmentOfConsecutiveLines ==
    machine = "dev" =>
        \A k \in CutShards :
            \A j \in 1..Len(dev_results[k].segments) :
                LET seg == dev_results[k].segments[j]
                IN /\ seg.words # <<>>
                   /\ \A i \in 1..Len(seg.words) :
                        /\ seg.words[i][1] < Len(TableOf(k))
                        /\ seg.words[i][2] < TableOf(k)[seg.words[i][1] + 1].words
                   /\ \A i \in 1..(Len(seg.words) - 1) : seg.words[i + 1] = NextWordOfShard(k, seg.words[i])

\* A segment with words of two documents
C10_Witness ==
    /\ machine = "dev"
    /\ \E k \in CutShards : \E j \in 1..Len(dev_results[k].segments) :
        \E g1 \in SentencesOf(dev_results[k].segments[j]) :
        \E g2 \in SentencesOf(dev_results[k].segments[j]) :
            TableOf(k)[g1 + 1].doc # TableOf(k)[g2 + 1].doc

----------------------------------------------------------------------------
(* cut_segment and cut_and_save: word windows of a text *)

\* A text is a string of characters of three kinds: "w" is a word character,
\* "." a punctuation mark and " " a space.
TextCharacters == {"w", ".", " "}

\* The texts cut_segment is called with
CutTexts == SeqsUpTo(TextCharacters, MaxChars)

\* The end of the run of word characters (word = TRUE) or of other characters
\* (word = FALSE) that starts at position pos of text
RECURSIVE RunEnd(_, _, _)
RunEnd(text, pos, word) ==
    IF pos < Len(text) /\ ((text[pos + 1] = "w") = word) THEN RunEnd(text, pos + 1, word)
    ELSE pos

\* small.WORD_WITH_PRECEDING_AND_FOLLOWING_PUNCTUATION.finditer(text), from
\* position pos on: the spans of the matches, a match being a token with the
\* characters other than word characters that precede and follow it
RECURSIVE finditer(_, _)
finditer(text, pos) ==
    LET word_start == RunEnd(text, pos, FALSE)
        word_end == RunEnd(text, word_start, TRUE)
        match_end == RunEnd(text, word_end, FALSE)
    IN IF word_start >= Len(text) THEN <<>>
       ELSE <<<<pos, match_end>>>> \o finditer(text, match_end)

\* count_words(text)
count_words(text) == Len(finditer(text, 0))

\* segment += m.group(0) for the matches ms[1..k] of text
RECURSIVE Groups(_, _, _)
Groups(text, ms, k) ==
    IF k = 0 THEN <<>>
    ELSE Groups(text, ms, k - 1) \o Slice(text, ms[k][1], ms[k][2])

\* cut_segment(text, shift, num_words_in_segment) as the string it returns
cut_segment_string(text, shift, num_words_in_segment) ==
    LET ms == cut_segment(finditer(text, 0), shift, num_words_in_segment)
    IN Groups(text, ms, Len(ms))

\* segment.rstrip(' ') (no character of the model is '-', '"' or '(')
RECURSIVE rstrip(_)
rstrip(segment) ==
    IF Len(segment) > 0 /\ segment[Len(segment)] = " "
    THEN rstrip(SubSeq(segment, 1, Len(segment) - 1))
    ELSE segment

\* strip_segment(segment)
strip_segment(segment) ==
    LET stripped == rstrip(segment)
    IN Slice(stripped, RunEnd(stripped, 0, FALSE), Len(stripped))

\* n words separated by single spaces: a text after line 1678
RECURSIVE WordsText(_)
WordsText(n) ==
    IF n = 0 THEN <<>>
    ELSE IF n = 1 THEN <<"w">>
    ELSE WordsText(n - 1) \o <<" ", "w">>

\* The texts cut_and_save cuts: words separated by single spaces, with or
\* without a punctuation mark at the end
TrainTexts ==
    {WordsText(n) : n \in 0..MaxTrainWords} \cup {WordsText(n) \o <<".">> : n \in 1..MaxTrainWords}

\* list(range(a, b))
range_inclusive(a, b) == [i \in 1..Max(b - a + 1, 0) |-> a + i - 1]

range(a, b) == [i \in 1..Max(b - a, 0) |-> a + i - 1]

\* random.sample(population, len(population)): the lists it can return
sample(population) ==
    {[i \in 1..Len(population) |-> population[q[i]]] : q \in SamplesOfRange(Len(population))}

InitCut ==
    /\ machine = "cut"
    /\ \/ /\ cpc = "cut_segment"
          /\ cut_text \in CutTexts
          /\ cut_shift \in 0..MaxShift
          /\ cut_num_words \in 0..MaxCutWords
          /\ sequence_range = <<>>
          /\ num_passes_through_dataset = 0
       \/ /\ cpc = "cut_and_save"
          /\ cut_text \in TrainTexts
          /\ cut_shift = 0
          /\ cut_num_words = 0
          /\ sequence_range \in {<<lo, hi>> : lo \in 1..MaxTrainLength, hi \in 1..MaxTrainLength}
          /\ sequence_range[1] < sequence_range[2]
          /\ num_passes_through_dataset \in 1..MaxPasses
    /\ cut_segment_result = <<>>
    /\ num_words_in_segments = <<>>
    /\ one_pass = <<>>
    /\ out_f = <<>>
    /\ cut_raised = "none"
    /\ documents = EmptyMap
    /\ doc_id_to_file_i = EmptyMap
    /\ IdleBorders
    /\ IdleExtract
    /\ IdleMerge
    /\ IdleAlloc
    /\ IdleDev
    /\ IdleEuroparl
    /\ IdleUn
    /\ IdleProgress
    /\ IdleDriver

\* A call of cut_segment
call_cut_segment ==
    /\ machine = "cut"
    /\ cpc = "cut_segment"
    /\ cut_segment_result' = cut_segment_string(cut_text, cut_shift, cut_num_words)
    /\ cpc' = "cut_segment_returned"
    /\ UNCHANGED <<machine, cut_text, cut_shift, cut_num_words, sequence_range,
                   num_words_in_segments, one_pass, num_passes_through_dataset, out_f, cut_raised,
                   notCut, varsStore>>

\* cut_and_save, lines 1679-1683, for the text of line 1678
cut_and_save ==
    /\ machine = "cut"
    /\ cpc = "cut_and_save"
    /\ LET num_words == count_words(cut_text)
       IN IF num_words < sequence_range[1] * 2
          THEN /\ cpc' = "returned"
               /\ UNCHANGED num_words_in_segments
          ELSE /\ num_words_in_segments' =
                    range(sequence_range[1], Min(sequence_range[2], num_words \div 2))
               /\ cpc' = "one_pass"
    /\ UNCHANGED <<machine, cut_text, cut_shift, cut_num_words, cut_segment_result,
                   sequence_range, one_pass, num_passes_through_dataset, out_f, cut_raised,
                   notCut, varsStore>>

\* cut_and_save_one_pass, lines 1640-1647; max() of an empty list raises
\* ValueError
cut_and_save_one_pass ==
    /\ machine = "cut"
    /\ cpc = "one_pass"
    /\ IF num_passes_through_dataset = 0
       THEN /\ cpc' = "returned"
            /\ UNCHANGED <<one_pass, cut_raised>>
       ELSE IF num_words_in_segments = <<>>
       THEN /\ cpc' = "raised"
            /\ cut_raised' = "ValueError"
            /\ UNCHANGED one_pass
       ELSE /\ \E permutation \in sample(num_words_in_segments) :
               \E shift \in 0..(MaxOf(RangeOf(num_words_in_segments)) \div 2) :
                    one_pass' = [permutation |-> permutation, shift |-> shift, p_i |-> 0,
                             start_match |-> -1, num_in_segment |-> 0, m |-> -1]
            /\ cpc' = "for_m"
            /\ UNCHANGED cut_raised
    /\ UNCHANGED <<machine, cut_text, cut_shift, cut_num_words, cut_segment_result,
                   sequence_range, num_words_in_segments, num_passes_through_dataset, out_f,
                   notCut, varsStore>>

\* The line written to out_f for the matches first..last of the text, with
\* the length that was asked for (0 for the rest of the text)
written(first, last, asked) ==
    LET ms == finditer(cut_text, 0)
    IN [pass_i |-> num_passes_through_dataset, first |-> first, last |-> last, asked |-> asked,
        segment |-> strip_segment(Slice(cut_text, ms[first + 1][1], ms[last + 1][2]))]

\* One iteration of the loop of lines 1648-1666
cut_and_save_one_pass_iteration ==
    /\ machine = "cut"
    /\ cpc = "for_m"
    /\ one_pass.m + 1 < count_words(cut_text)
    /\ LET m == one_pass.m + 1
           start_match == IF one_pass.start_match < 0 THEN m ELSE one_pass.start_match
           num_in_segment == one_pass.num_in_segment + 1
           p_i == (one_pass.p_i + 1) % Len(one_pass.permutation)
       IN IF one_pass.shift > 0
          THEN /\ one_pass' = [one_pass EXCEPT !.shift = @ - 1, !.m = m]
               /\ UNCHANGED out_f
          ELSE IF num_in_segment = one_pass.permutation[one_pass.p_i + 1]
          THEN /\ out_f' = Append(out_f, written(start_match, m, num_in_segment))
               /\ \E permutation \in (IF p_i = 0 THEN sample(num_words_in_segments)
                                      ELSE {one_pass.permutation}) :
                    one_pass' = [one_pass EXCEPT !.permutation = permutation, !.p_i = p_i,
                                         !.start_match = -1, !.num_in_segment = 0, !.m = m]
          ELSE /\ one_pass' = [one_pass EXCEPT !.start_match = start_match,
                                       !.num_in_segment = num_in_segment, !.m = m]
               /\ UNCHANGED out_f
    /\ UNCHANGED <<machine, cpc, cut_text, cut_shift, cut_num_words, cut_segment_result,
                   sequence_range, num_words_in_segments, num_passes_through_dataset,
                   cut_raised, notCut, varsStore>>

\* Lines 1667-1670, then the next pass of the loop of lines 1684-1685
cut_and_save_one_pass_return ==
    /\ machine = "cut"
    /\ cpc = "for_m"
    /\ one_pass.m + 1 >= count_words(cut_text)
    /\ out_f' = IF one_pass.start_match >= 0
                THEN Append(out_f, written(one_pass.start_match, one_pass.m, 0))
                ELSE out_f
    /\ num_passes_through_dataset' = num_passes_through_dataset - 1
    /\ one_pass' = <<>>
    /\ cpc' = "one_pass"
    /\ UNCHANGED <<machine, cut_text, cut_shift, cut_num_words, cut_segment_result,
                   sequence_range, num_words_in_segments, cut_raised, notCut, varsStore>>

NextCut ==
    \/ call_cut_segment
    \/ cut_and_save
    \/ cut_and_save_one_pass
    \/ cut_and_save_one_pass_iteration
    \/ cut_and_save_one_pass_return

SpecCut == InitCut /\ [][NextCut]_vars

\* The calls of cut_segment, on strings and inside the dev/test extraction
SpecSegments == (InitCut \/ InitDev) /\ [][NextCut \/ NextDev]_vars

\* The words of the window of a dev/test segment
WindowOf(k, seg) ==
    WordsOfWindow([g \in 1..Len(TableOf(k)) |-> TableOf(k)[g].words], seg.start, seg.num_sentences)

(* C11: for a text of at least shift + k words, cut_segment(text, shift, k)
   returns exactly the k words with the indices shift .. shift + k - 1 of
   the text, so that count_words of what it returns is k; and every
   dev/test segment cut by extract_dev_text_segments_worker is made of the
   words shift .. shift + length - 1 of its window, length being the word
   length assigned to it. *)
C11_CutSegmentHasAssignedLength ==
    /\ (machine = "cut" /\ cpc = "cut_segment_returned"
            /\ count_words(cut_text) >= cut_shift + cut_num_words)
        => LET ms == finditer(cut_text, 0)
           IN /\ cut_segment_result =
                    IF cut_num_words = 0 THEN <<>>
                    ELSE Slice(cut_text, ms[cut_shift + 1][1], ms[cut_shift + cut_num_words][2])
              /\ count_words(cut_segment_result) = cut_num_words
    /\ machine = "dev"
        => \A k \in CutShards : \A j \in 1..Len(dev_results[k].segments) :
            LET seg == dev_results[k].segments[j]
            IN /\ Len(seg.words) = seg.length
               /\ \A i \in 1..seg.length : seg.words[i] = WindowOf(k, seg)[seg.shift + i]

\* cut_segment has returned two words or more that are not the first words of
\* a text in which words follow them
C11_Witness ==
    /\ machine = "cut"
    /\ cpc = "cut_segment_returned"
    /\ cut_shift >= 1
    /\ cut_num_words >= 2
    /\ count_words(cut_text) >= cut_shift + cut_num_words
    /\ count_words(cut_segment_result) = cut_num_words

\* Segment j is the last one out_f holds of its pass
LastOfPass(j) == j = Len(out_f) \/ out_f[j + 1].pass_i # out_f[j].pass_i

\* The segments of one pass are consecutive word windows of the text, none
\* of them empty, and the string written for a window holds its words
ConsecutiveWindows ==
    \A j \in 1..Len(out_f) :
        /\ out_f[j].first <= out_f[j].last
        /\ count_words(out_f[j].segment) = out_f[j].last - out_f[j].first + 1
        /\ ~LastOfPass(j) => out_f[j + 1].first = out_f[j].last + 1

(* C12 as stated: in one pass of cut_and_save_one_pass the emitted segments
   are non-overlapping consecutive word windows of the text, and every
   emitted segment has a word length in [min_len, max_len). *)
C12_EverySegmentLengthInRange ==
    machine = "cut" =>
        /\ ConsecutiveWindows
        /\ \A j \in 1..Len(out_f) :
            /\ count_words(out_f[j].segment) >= sequence_range[1]
            /\ count_words(out_f[j].segment) < sequence_range[2]

(* C12 amended: the emitted segments of a pass are non-overlapping
   consecutive word windows of the text; every emitted segment other than
   the last one of the pass has a word length in [min_len, max_len), and
   the last one of the pass has at least one word and fewer than max_len
   words. *)
C12_SegmentLengthInRangeButLast ==
    machine = "cut" =>
        /\ ConsecutiveWindows
        /\ \A j \in 1..Len(out_f) :
            /\ count_words(out_f[j].segment) >= (IF LastOfPass(j) THEN 1 ELSE sequence_range[1])
            /\ count_words(out_f[j].segment) < sequence_range[2]

\* A pass has written segments of two lengths of the range and then the words
\* that were left, fewer than min_len
C12_Witness ==
    /\ machine = "cut"
    /\ cpc = "returned"
    /\ \E j \in 3..Len(out_f) :
        /\ out_f[j].asked = 0
        /\ count_words(out_f[j].segment) < sequence_range[1]
        /\ out_f[j - 1].pass_i = out_f[j].pass_i
        /\ out_f[j - 2].pass_i = out_f[j].pass_i
        /\ out_f[j - 1].asked # out_f[j - 2].asked

----------------------------------------------------------------------------
(* main with Europarl corpora: preprocess_europarl and clean_small_dataset *)

\* A line of a Europarl file is [session, kind]: session stands for
\* m.group(2), the session the line belongs to, and kind tells what becomes
\* of the line:
\*   "good"       it passes the test of lines 490-494 and the final cleaning
\*   "skipped"    it does not pass the test of lines 490-494
\*   "cleaned"    it passes that test and is removed by the final cleaning
\*   "unmatched"  small.EUROPARL_LINE does not match it
LineKinds == {"good", "skipped", "cleaned", "unmatched"}

EuroparlLines == [session : 1..MaxSessions, kind : LineKinds]

EuroparlFiles == SeqsUpTo(EuroparlLines, MaxEuroparlLines)

\* last_title = None
None == <<>>

\* "europarl_" + m.group(2).strip()
europarl_title(line) == <<"europarl", line.session>>

\* last_title is not None and last_title != title
title_changed_no_last(last_title, title) == last_title # None

title_changed(last_title, title) == last_title # None /\ last_title # title

\* The loop of lines 485-505 from line i on; the text of a document is the
\* list of the lines of the file it is made of
RECURSIVE EuroparlLoop(_, _, _, _, _)
EuroparlLoop(text_lines, i, doc_id, last_title, docs) ==
    IF i >= Len(text_lines) THEN [raised |-> "none", docs |-> docs, doc_id |-> doc_id]
    ELSE LET line == text_lines[i + 1]
             title == europarl_title(line)
             changed == title_changed(last_title, title)
             closed == IF changed THEN [docs EXCEPT ![doc_id].end_line = i] ELSE docs
             next_doc_id == IF changed THEN doc_id + 1 ELSE doc_id
             added == IF next_doc_id \in DOMAIN closed
                      THEN [closed EXCEPT ![next_doc_id].text = Append(@, i)]
                      ELSE update(closed,
                                  [d \in {next_doc_id} |->
                                        [text |-> <<i>>, title |-> title, start_line |-> i,
                                         end_line |-> -1]])
         IN IF line.kind = "unmatched"
            THEN [raised |-> "ValueError", docs |-> docs, doc_id |-> doc_id]
            ELSE IF line.kind = "skipped"
            THEN EuroparlLoop(text_lines, i + 1, doc_id, last_title, docs)
            ELSE EuroparlLoop(text_lines, i + 1, next_doc_id, title, added)

\* The text of a document after lines 435-454: the lines the cleaning removes
\* are gone
RECURSIVE remove_lines(_, _, _)
remove_lines(text, text_lines, k) ==
    IF k = 0 THEN <<>>
    ELSE remove_lines(text, text_lines, k - 1)
         \o (IF text_lines[text[k] + 1].kind = "cleaned" THEN <<>> ELSE <<text[k]>>)

\* clean_small_dataset(docs, ...): a document whose text has become empty is
\* deleted (lines 455-456)
clean_small_dataset(docs, text_lines) ==
    LET cleaned == [d \in DOMAIN docs |->
                        [docs[d] EXCEPT !.text = remove_lines(@, text_lines, Len(@))]]
    IN [d \in {d \in DOMAIN docs : cleaned[d].text # <<>>} |-> cleaned[d]]

\* preprocess_europarl(file_path, document_dir, lang, start_doc_id,
\* start_file_id, tokenizer): what it raises, the documents it writes to
\* <start_file_id>.xml (written tells whether it writes the file) and the
\* dictionary it returns
preprocess_europarl(text_lines, start_doc_id, start_file_id) ==
    LET loop == EuroparlLoop(text_lines, 0, start_doc_id, None, EmptyMap)
        ended == IF DOMAIN loop.docs # {}
                 THEN [loop.docs EXCEPT ![loop.doc_id].end_line = Len(text_lines)]
                 ELSE loop.docs
        docs == clean_small_dataset(ended, text_lines)
    IN IF loop.raised # "none"
       THEN [raised |-> loop.raised, written |-> FALSE, docs |-> EmptyMap, map |-> EmptyMap]
       ELSE [raised |-> "none", written |-> DOMAIN docs # {}, docs |-> docs,
             map |-> [d \in DOMAIN docs |-> start_file_id]]

\* big.write_docs_to_file(docs, ...): the documents in the order of the
\* dictionary, which is the order of their IDs
write_docs_to_file(docs) ==
    LET ids == SortedFiles(DOMAIN docs)
    IN [j \in 1..Len(ids) |-> [id |-> ids[j], title |-> docs[ids[j]].title, text |-> docs[ids[j]].text]]

InitEuroparl ==
    /\ machine = "europarl"
    /\ epc = "main"
    /\ corpus = <<>>
    /\ corpus_i = 0
    /\ main_start_doc_id = 0
    /\ main_start_file_id = 0
    /\ pending = {}
    /\ europarl_call = <<>>
    /\ documents = EmptyMap
    /\ doc_id_to_file_i = EmptyMap
    /\ IdleBorders
    /\ IdleMerge
    /\ IdleAlloc
    /\ IdleDev
    /\ IdleCut
    /\ IdleUn
    /\ IdleProgress
    /\ IdleDriver

\* main reaches a Europarl corpus of the list (lines 1950-1953)
main_preprocess_europarl ==
    /\ machine = "europarl"
    /\ epc = "main"
    /\ corpus_i < MaxEuroparlCorpora
    /\ \E text_lines \in EuroparlFiles :
        LET call == preprocess_europarl(text_lines, main_start_doc_id, main_start_file_id)
        IN /\ europarl_call' = [file |-> text_lines, start_doc_id |-> main_start_doc_id,
                                start_file_id |-> main_start_file_id, counters |-> "pending",
                                raised |-> call.raised, written |-> call.written,
                                docs |-> call.docs, map |-> call.map]
           /\ documents' = IF call.written
                           THEN update(documents,
                                       [f \in {main_start_file_id} |-> write_docs_to_file(call.docs)])
                           ELSE documents
           /\ epc' = IF call.raised = "none" THEN "returned" ELSE "raised"
    /\ UNCHANGED <<machine, corpus_i, main_start_doc_id, main_start_file_id, doc_id_to_file_i,
                   notEuroparl>>

\* Lines 2018-2020 of main after preprocess_europarl has returned; max() of
\* an empty sequence raises ValueError
main_update_europarl ==
    /\ machine = "europarl"
    /\ epc = "returned"
    /\ LET corpus_doc_id_to_file_i == europarl_call.map
       IN /\ doc_id_to_file_i' = update(doc_id_to_file_i, corpus_doc_id_to_file_i)
          /\ IF DOMAIN corpus_doc_id_to_file_i = {}
             THEN /\ epc' = "raised"
                  /\ europarl_call' = [europarl_call EXCEPT !.counters = "ValueError"]
                  /\ UNCHANGED <<main_start_doc_id, main_start_file_id, corpus_i>>
             ELSE /\ epc' = "main"
                  /\ europarl_call' = [europarl_call EXCEPT !.counters = "updated"]
                  /\ main_start_doc_id' = MaxOf(DOMAIN corpus_doc_id_to_file_i) + 1
                  /\ main_start_file_id' = MaxOf(RangeOf(corpus_doc_id_to_file_i)) + 1
                  /\ corpus_i' = corpus_i + 1
    /\ UNCHANGED <<machine, documents, notEuroparl>>

\* The list of corpora is exhausted
europarl_done ==
    /\ machine = "europarl"
    /\ epc = "main"
    /\ corpus_i >= 1
    /\ epc' = "done"
    /\ UNCHANGED <<machine, corpus_i, main_start_doc_id, main_start_file_id, europarl_call,
                   varsStore, notEuroparl>>

NextEuroparl ==
    \/ main_preprocess_europarl
    \/ main_update_europarl
    \/ europarl_done

SpecEuroparl == InitEuroparl /\ [][NextEuroparl]_vars

\* The lines (counted from 1) that begin a maximal run of consecutive lines
\* with the same session
RunStarts(text_lines) ==
    {i \in 1..Len(text_lines) : i = 1 \/ text_lines[i].session # text_lines[i - 1].session}

\* The numbers (counted from 0) of the lines of the run that begins at line i
RunOf(text_lines, i) ==
    LET later == {s \in RunStarts(text_lines) : s > i}
        last == IF later = {} THEN Len(text_lines)
                ELSE (CHOOSE s \in later : \A r \in later : s <= r) - 1
    IN [j \in 1..(last - i + 1) |-> i + j - 2]

\* Every line of the file passes the quality filters
AllLinesPass(text_lines) == \A i \in 1..Len(text_lines) : text_lines[i].kind = "good"

(* C13: for a Europarl file whose lines all pass the quality filters and
   form k maximal runs of consecutive lines with the same session,
   preprocess_europarl writes exactly k documents, with the IDs
   start_doc_id .. start_doc_id + k - 1 in the order of the runs, each made
   of exactly the lines of its run and titled europarl_<session>, and
   returns the map that sends each of these IDs to start_file_id. *)
C13_EuroparlOneDocumentPerRun ==
    (machine = "europarl" /\ europarl_call # <<>> /\ AllLinesPass(europarl_call.file)) =>
        LET text_lines == europarl_call.file
            starts == SortedFiles(RunStarts(text_lines))
            k == Len(starts)
        IN /\ europarl_call.raised = "none"
           /\ DOMAIN europarl_call.map =
                    europarl_call.start_doc_id..(europarl_call.start_doc_id + k - 1)
           /\ \A d \in DOMAIN europarl_call.map : europarl_call.map[d] = europarl_call.start_file_id
           /\ europarl_call.written = (k > 0)
           /\ k > 0 =>
                documents[europarl_call.start_file_id] =
                    [j \in 1..k |->
                        [id |-> europarl_call.start_doc_id + j - 1,
                         title |-> <<"europarl", text_lines[starts[j]].session>>,
                         text |-> RunOf(text_lines, starts[j])]]

\* A file of two runs, one of them of two lines, extracted after another corpus
C13_Witness ==
    /\ machine = "europarl"
    /\ europarl_call # <<>>
    /\ AllLinesPass(europarl_call.file)
    /\ europarl_call.start_doc_id > 0
    /\ Cardinality(RunStarts(europarl_call.file)) = 2
    /\ Len(europarl_call.file) = 3
    /\ Len(documents[europarl_call.start_file_id]) = 2

\* The shards of the directory that hold a document with the ID d
ShardsOf(d) ==
    {f \in DOMAIN documents : \E j \in 1..Len(documents[f]) : documents[f][j].id = d}

(* C14: once preprocess_wiki_extracted has returned and main has stored its
   map, the document_id -> shard_id map contains exactly the IDs of the
   documents that were written, each mapped to the shard that holds it:
   there is no entry for a document that was dropped and none that points
   to a shard that holds no such document. *)
C14_MapHasExactlyWrittenDocuments ==
    (machine = "extract" /\ epc \in {"main", "done"}) =>
        /\ \A d \in DOMAIN doc_id_to_file_i : doc_id_to_file_i[d] \in ShardsOf(d)
        /\ \A f \in DOMAIN documents : \A j \in 1..Len(documents[f]) :
                /\ documents[f][j].id \in DOMAIN doc_id_to_file_i
                /\ doc_id_to_file_i[documents[f][j].id] = f

----------------------------------------------------------------------------
(* preprocess_un and preprocess_tatoeba: one document per input file *)

\* What PreprocessUNWorker does with a paragraph of the body:
\*   "kept"         its sentences are appended to the text (line 1340)
\*   "no_sentences" UN_SENTENCE_START finds no sentence in it (line 1317)
\*   "enumeration"  it holds a forbidden enumeration (lines 1321, 1324)
\*   "suspicious"   the cleaning removes a line of it (line 1335)
\*   "blank"        nothing but spaces is left of it (line 1337)
ParagraphKinds == {"kept", "no_sentences", "enumeration", "suspicious", "blank"}

\* A file of the UN directory: an empty file, a file without exactly one
\* <body> ... </body>, or the paragraphs of its body
UnFiles ==
    {[kind |-> "empty", paragraphs |-> <<>>], [kind |-> "bad_body", paragraphs |-> <<>>]}
    \cup {[kind |-> "body", paragraphs |-> p] : p \in SeqsUpTo(ParagraphKinds, MaxParagraphs)}

UnDirectories == SeqsUpTo(UnFiles, MaxUnFiles)

\* The lines of a tatoeba file: the number of words of each line
TatoebaFiles == SeqsUpTo(0..MaxTatoebaWords, MaxTatoebaLines)

\* The text PreprocessUNWorker builds in lines 1312-1344: the paragraphs of
\* the body that are kept, by their numbers
RECURSIVE UnText(_, _)
UnText(paragraphs, k) ==
    IF k = 0 THEN <<>>
    ELSE UnText(paragraphs, k - 1) \o (IF paragraphs[k] = "kept" THEN <<k>> ELSE <<>>)

\* What PreprocessUNWorker.__call__ raises for a file (text[-1] of an empty
\* text, the tests of lines 1302 and 1305)
UnRaises(f) ==
    IF f.kind = "empty" THEN "IndexError"
    ELSE IF f.kind = "bad_body" THEN "ValueError"
    ELSE "none"

\* '\n'.join(lines) of preprocess_tatoeba, a line being ' '.join(words[2:]):
\* the numbers of words of the lines of the text; the text is empty when
\* there is no line or one line without words
TatoebaText(file_lines) ==
    LET lines == [i \in 1..Len(file_lines) |-> Max(file_lines[i] - 2, 0)]
    IN IF lines = <<0>> THEN <<>> ELSE lines

InitUn ==
    /\ machine = "un"
    /\ \/ /\ upc = "preprocess_un"
          /\ un_files \in UnDirectories
       \/ /\ upc = "preprocess_tatoeba"
          /\ un_files \in TatoebaFiles
    /\ un_start_doc_id \in 0..1
    /\ un_start_file_id = un_start_doc_id
    /\ un_pending = {}
    /\ un_raised = "none"
    /\ un_returned = EmptyMap
    /\ documents = EmptyMap
    /\ doc_id_to_file_i = EmptyMap
    /\ IdleBorders
    /\ IdleExtract
    /\ IdleMerge
    /\ IdleAlloc
    /\ IdleDev
    /\ IdleCut
    /\ IdleEuroparl
    /\ IdleProgress
    /\ IdleDriver

\* preprocess_un starts its pool (lines 1375-1381)
preprocess_un ==
    /\ machine = "un"
    /\ upc = "preprocess_un"
    /\ un_pending' = 1..Len(un_files)
    /\ upc' = "pool"
    /\ UNCHANGED <<machine, un_files, un_start_doc_id, un_start_file_id, un_raised, un_returned,
                   varsStore, notUn>>

\* One task of the pool: PreprocessUNWorker.__call__(file, file_id, doc_id, idx)
PreprocessUNWorker(i) ==
    /\ machine = "un"
    /\ upc = "pool"
    /\ i \in un_pending
    /\ un_pending' = un_pending \ {i}
    /\ IF UnRaises(un_files[i]) # "none"
       THEN /\ un_raised' = IF un_raised = "none" THEN UnRaises(un_files[i]) ELSE un_raised
            /\ UNCHANGED documents
       ELSE /\ documents' = update(documents,
                    [f \in {un_start_file_id + i - 1} |->
                        <<[id |-> un_start_doc_id + i - 1,
                           text |-> UnText(un_files[i].paragraphs, Len(un_files[i].paragraphs))]>>])
            /\ UNCHANGED un_raised
    /\ UNCHANGED <<machine, upc, un_files, un_start_doc_id, un_start_file_id, un_returned,
                   doc_id_to_file_i, notUn>>

\* pool.starmap returns, or raises what a task raised; line 1382
preprocess_un_return ==
    /\ machine = "un"
    /\ upc = "pool"
    /\ IF un_raised # "none"
       THEN /\ upc' = "raised"
            /\ UNCHANGED un_returned
       ELSE /\ un_pending = {}
            /\ upc' = "returned"
            /\ un_returned' = [d \in {un_start_doc_id + i - 1 : i \in 1..Len(un_files)} |->
                                    un_start_file_id + (d - un_start_doc_id)]
    /\ UNCHANGED <<machine, un_files, un_start_doc_id, un_start_file_id, un_pending, un_raised,
                   varsStore, notUn>>

\* preprocess_tatoeba(file_path, document_dir, doc_id, file_id)
preprocess_tatoeba ==
    /\ machine = "un"
    /\ upc = "preprocess_tatoeba"
    /\ documents' = update(documents,
            [f \in {un_start_file_id} |-> <<[id |-> un_start_doc_id, text |-> TatoebaText(un_files)]>>])
    /\ un_returned' = [d \in {un_start_doc_id} |-> un_start_file_id]
    /\ upc' = "returned"
    /\ UNCHANGED <<machine, un_files, un_start_doc_id, un_start_file_id, un_pending, un_raised,
                   doc_id_to_file_i, notUn>>

NextUn ==
    \/ preprocess_un
    \/ \E i \in 1..MaxUnFiles : PreprocessUNWorker(i)
    \/ preprocess_un_return
    \/ preprocess_tatoeba

SpecUn == InitUn /\ [][NextUn]_vars

(* C15: no extractor writes a document with an empty text to a shard: a
   document whose text is empty after cleaning is dropped instead of
   stored. *)
C15_NoEmptyDocumentStored ==
    machine = "un" =>
        \A f \in DOMAIN documents : \A j \in 1..Len(documents[f]) : documents[f][j].text # <<>>

(* C16: when a corpus of the list yields no document at all (every document
   was dropped during cleaning), main does not fail: it goes on to the next
   corpus with the document-ID and shard-ID counters unchanged. *)
C16_EmptyCorpusDoesNotFail ==
    (/\ machine = "europarl"
     /\ europarl_call # <<>>
     /\ europarl_call.raised = "none"
     /\ DOMAIN europarl_call.map = {}
     /\ \E i \in 1..Len(europarl_call.file) : europarl_call.file[i].kind = "cleaned"
     /\ europarl_call.counters # "pending")
        => /\ epc # "raised"
           /\ main_start_doc_id = europarl_call.start_doc_id
           /\ main_start_file_id = europarl_call.start_file_id

(* C17 as stated: get_borders_with_documents_intact fails with ValueError
   when the file is empty, since no parts can be produced: no part is ever
   appended to byte_borders for an empty file. *)
C17_EmptyFileProducesNoParts ==
    (machine = "borders" /\ file = <<>>) =>
        /\ byte_borders = <<>>
        /\ num_characters_in_part = <<>>
        /\ bpc = "borders"

(* C17 amended: get_borders_with_documents_intact does not fail when the
   file is empty: it returns num_parts parts, each with the byte borders
   (0, 0) and 0 characters. *)
C17_EmptyFileGivesEmptyParts ==
    (machine = "borders" /\ file = <<>> /\ bpc # "borders") =>
        /\ byte_borders = [i \in 1..num_parts |-> <<0, 0>>]
        /\ num_characters_in_part = [i \in 1..num_parts |-> 0]

\* get_borders_with_documents_intact has returned for an empty file that was
\* to be cut in two parts or more
C17_Witness ==
    /\ machine = "borders"
    /\ file = <<>>
    /\ num_parts >= 2
    /\ bpc = "pool"
    /\ Len(byte_borders) = num_parts

----------------------------------------------------------------------------
(* Progress and show_prog: the progress process of a stage *)

\* A stage starts and stops its progress process in one of two ways:
\*   "with_progress"  with Progress(...) as progress_queues: with mp.Pool(...)
\*   "manual"         mp.Process(target=big.show_prog, ...).start(), the pool,
\*                    then progress_queue.put(-1) and progress_process.join()
\*                    (preprocess_wikipedia_parallel, remove_parentheses_parallel,
\*                    cut_and_save_parallel)
\*   "join_only"      mp.Process(target=big.show_prog, ...).start(), the pool,
\*                    then progress_process.join()
\*                    (estimate_number_of_segments_parallel)
\* big.show_prog runs until it is told to finalize by the sentinel: it is
\* taken to read its queue as show_prog does
StageKinds == {"with_progress", "manual", "join_only"}

\* A test that takes every value that is not positive for the sentinel
is_finalize_or_zero(v) == v <= 0

\* The test of `while v != -1`, negated: v is the finalize sentinel
is_finalize(v) == v = -1

\* all(finished)
all(flags) == \A i \in 1..Len(flags) : flags[i]

InitProgress ==
    /\ machine = "progress"
    /\ stage_kind \in StageKinds
    /\ \E num_processes \in 1..(IF stage_kind = "with_progress" THEN MaxBars ELSE 1) :
        /\ total_num_lines \in [1..num_processes -> 0..MaxTotal]
        /\ progress_queues = [i \in 1..num_processes |-> <<>>]
        /\ prog = [i \in 1..num_processes |-> 0]
        /\ finished = [i \in 1..num_processes |-> FALSE]
        /\ warned = [i \in 1..num_processes |-> FALSE]
        /\ pushed = [i \in 1..num_processes |-> 0]
        /\ delivered = [i \in 1..num_processes |-> FALSE]
    /\ gpc = "pool"
    /\ sp = [pc |-> "for", i |-> 0, to_add |-> 0]
    /\ puts_left \in 0..MaxPuts
    /\ exc = FALSE
    /\ documents = EmptyMap
    /\ doc_id_to_file_i = EmptyMap
    /\ IdleBorders
    /\ IdleExtract
    /\ IdleMerge
    /\ IdleAlloc
    /\ IdleDev
    /\ IdleCut
    /\ IdleEuroparl
    /\ IdleUn
    /\ IdleDriver

\* A worker of the pool reports progress: progress_queue.put(v)
pool_worker_put(i, v) ==
    /\ machine = "progress"
    /\ gpc = "pool"
    /\ puts_left > 0
    /\ i \in 1..Len(progress_queues)
    /\ progress_queues' = [progress_queues EXCEPT ![i] = Append(@, v)]
    /\ pushed' = [pushed EXCEPT ![i] = @ + v]
    /\ puts_left' = puts_left - 1
    /\ UNCHANGED <<machine, gpc, stage_kind, total_num_lines, prog, finished, warned, sp,
                   delivered, exc, varsStore, notProgress>>

\* pool.starmap returns and the `with mp.Pool` block is left; what follows
\* is finish (or progress_queue.put(-1)), or at once progress_process.join()
\* in estimate_number_of_segments_parallel
pool_returns ==
    /\ machine = "progress"
    /\ gpc = "pool"
    /\ puts_left = 0
    /\ gpc' = IF stage_kind = "join_only" THEN "join" ELSE "finish"
    /\ UNCHANGED <<machine, stage_kind, total_num_lines, progress_queues, prog, finished, warned,
                   sp, puts_left, pushed, delivered, exc, varsStore, notProgress>>

\* A worker raises: pool.starmap raises in the stage and the pool is
\* terminated.  Inside `with Progress(...)` the exception reaches
\* Progress.__exit__, which calls finish; in a stage that stops the progress
\* process by hand the statements after the pool are not run and the
\* exception leaves the stage
pool_worker_raises ==
    /\ machine = "progress"
    /\ gpc = "pool"
    /\ exc' = TRUE
    /\ gpc' = IF stage_kind = "with_progress" THEN "finish" ELSE "raised"
    /\ UNCHANGED <<machine, stage_kind, total_num_lines, progress_queues, prog, finished, warned,
                   sp, puts_left, pushed, delivered, varsStore, notProgress>>

\* Progress.finish, one iteration of `for q in self.progress_queues:
\* q.put(-1)`; progress_queue.put(-1) of the stages that do it by hand
Progress_finish ==
    /\ machine = "progress"
    /\ gpc = "finish"
    /\ \E i \in 1..Len(progress_queues) :
        /\ \A j \in 1..(i - 1) : -1 \in RangeOf(progress_queues[j]) \/ delivered[j]
        /\ ~(-1 \in RangeOf(progress_queues[i]) \/ delivered[i])
        /\ progress_queues' = [progress_queues EXCEPT ![i] = Append(@, -1)]
        /\ gpc' = IF i = Len(progress_queues) THEN "join" ELSE "finish"
    /\ UNCHANGED <<machine, stage_kind, total_num_lines, prog, finished, warned, sp, puts_left,
                   pushed, delivered, exc, varsStore, notProgress>>

\* self.progress_process.join() returns once show_prog has returned; the
\* exception of a worker, if any, then leaves the stage
Progress_join ==
    /\ machine = "progress"
    /\ gpc = "join"
    /\ sp.pc = "exited"
    /\ gpc' = IF exc THEN "raised" ELSE "returned"
    /\ UNCHANGED <<machine, stage_kind, total_num_lines, progress_queues, prog, finished, warned,
                   sp, puts_left, pushed, delivered, exc, varsStore, notProgress>>

\* show_prog at `for i, qq in enumerate(q)`: the next queue, or lines 96-98
\* after the last one
show_prog_for ==
    /\ machine = "progress"
    /\ sp.pc = "for"
    /\ sp' = IF sp.i < Len(progress_queues) THEN [pc |-> "get", i |-> sp.i, to_add |-> 0]
             ELSE IF all(finished) THEN [pc |-> "exited", i |-> sp.i, to_add |-> sp.to_add]
             ELSE [pc |-> "for", i |-> 0, to_add |-> sp.to_add]
    /\ UNCHANGED <<machine, gpc, stage_kind, total_num_lines, progress_queues, prog, finished,
                   warned, puts_left, pushed, delivered, exc, varsStore, notProgress>>

\* show_prog at v = qq.get(), lines 75-95: get() waits until the queue holds
\* a value and never raises Empty.  A value other than -1 is added to to_add
\* and the next value is awaited; with -1, to_add becomes -1, the bar is
\* finalized and to_add is added to prog[i].n
show_prog_get ==
    /\ machine = "progress"
    /\ sp.pc = "get"
    /\ progress_queues[sp.i + 1] # <<>>
    /\ LET i == sp.i + 1
           v == progress_queues[i][1]
           to_add == -1
       IN /\ progress_queues' = [progress_queues EXCEPT ![i] = SubSeq(@, 2, Len(@))]
          /\ IF ~is_finalize(v)
             THEN /\ sp' = [sp EXCEPT !.to_add = @ + v]
                  /\ UNCHANGED <<prog, finished, warned, delivered>>
             ELSE /\ warned' = [warned EXCEPT ![i] = @ \/ prog[i] < total_num_lines[i]]
                  /\ finished' = [finished EXCEPT ![i] = TRUE]
                  /\ prog' = [prog EXCEPT ![i] = @ + to_add]
                  /\ delivered' = [delivered EXCEPT ![i] = delivered[i] \/ v = -1]
                  /\ sp' = [pc |-> "for", i |-> sp.i + 1, to_add |-> to_add]
    /\ UNCHANGED <<machine, gpc, stage_kind, total_num_lines, puts_left, pushed, exc, varsStore,
                   notProgress>>

NextProgress ==
    \/ \E i \in 1..MaxBars : \E v \in 0..MaxDelta : pool_worker_put(i, v)
    \/ pool_returns
    \/ pool_worker_raises
    \/ Progress_finish
    \/ Progress_join
    \/ show_prog_for
    \/ show_prog_get

SpecProgress == InitProgress /\ [][NextProgress]_vars

\* The progress process and the process of the stage are scheduled: a step
\* of show_prog, of finish or of join that stays possible is taken
SpecProgressFair ==
    /\ SpecProgress
    /\ WF_vars(show_prog_for)
    /\ WF_vars(show_prog_get)
    /\ WF_vars(Progress_finish)
    /\ WF_vars(Progress_join)

----------------------------------------------------------------------------
(* Claims about the progress process *)

Bars == 1..Len(prog)

\* C18: the displayed count of a bar of show_prog is never negative, and at
\* finalization it equals the sum of the deltas pushed on the queue of the
\* bar before the -1 sentinel
C18_CountIsSumOfDeltas ==
    machine = "progress" =>
        \A i \in Bars : prog[i] >= 0 /\ (finished[i] => prog[i] = pushed[i])

\* C19: show_prog exits only after every queue has delivered the -1 sentinel,
\* also when a bar has a declared total it has reached; a bar finalized below
\* its declared total has caused a warning; and once Progress.finish has put
\* the sentinel on every queue, show_prog exits and the join returns
C19_ExitsAfterEverySentinel ==
    /\ [](machine = "progress" /\ sp.pc = "exited" => \A i \in Bars : delivered[i])
    /\ [](machine = "progress" =>
            \A i \in Bars : finished[i] /\ pushed[i] < total_num_lines[i] => warned[i])
    /\ (machine = "progress" /\ stage_kind = "with_progress" /\ gpc = "join") ~> (sp.pc = "exited")
    /\ (machine = "progress" /\ stage_kind = "with_progress" /\ gpc = "join")
            ~> (gpc \in {"returned", "raised"})

\* Two bars, one with nothing left to reach and one finalized below its
\* declared total after deltas were pushed to it: the warning was logged,
\* show_prog exited after both sentinels and the join returned
C19_Witness ==
    /\ machine = "progress"
    /\ stage_kind = "with_progress"
    /\ gpc = "returned"
    /\ sp.pc = "exited"
    /\ Len(prog) = 2
    /\ \A i \in Bars : delivered[i]
    /\ \E i \in Bars : total_num_lines[i] = 0 /\ ~warned[i]
    /\ \E i \in Bars : pushed[i] > 0 /\ pushed[i] < total_num_lines[i] /\ warned[i]

\* C20: when a worker of the pool raises, the exception leaves the stage only
\* after the progress process was sent the sentinel on every queue and was
\* joined
C20_ProgressJoinedOnError ==
    machine = "progress" /\ gpc = "raised" =>
        /\ \A i \in Bars : delivered[i]
        /\ sp.pc = "exited"

----------------------------------------------------------------------------
(* The wikipedia workers with parts that need several output files *)

\* MAX_NUM_CHARACTERS_IN_1_FILE scaled to the size of the files of the model:
\* a worker depends on the limit only through num_out_files =
\* ceil(num_characters_in_part / limit), and with a limit of a few characters
\* a part of a few pages needs several output files
ScaledLimits == {4, 9}

InitShards ==
    /\ machine = "borders"
    /\ file \in Files
    /\ num_parts \in 1..MaxParts
    /\ bpc = "borders"
    /\ part_i = 0
    /\ fpos = 0
    /\ last_byte_border = 0
    /\ total_characters_read = 0
    /\ remainder = <<>>
    /\ byte_borders = <<>>
    /\ num_characters_in_part = <<>>
    /\ result = <<>>
    /\ max_num_characters_in_1_file \in ScaledLimits
    /\ documents = EmptyMap
    /\ doc_id_to_file_i = EmptyMap
    /\ IdleExtract
    /\ IdleMerge
    /\ IdleAlloc
    /\ IdleDev
    /\ IdleCut
    /\ IdleEuroparl
    /\ IdleUn
    /\ IdleProgress
    /\ IdleDriver

SpecShards == InitShards /\ [][NextBorders]_vars

\* The tasks of the pool that have run
Ran == {k \in 1..Len(result) : result[k] # Pending}

\* What the task of worker k does: the call PoolWorker(k) makes
WikipediaTask(k) ==
    preprocess_wikipedia(file, byte_borders[k], num_characters_in_part[k],
                         out_file_ids(0)[k], out_file_ids(0)[k + 1],
                         num_output_files[k], start_doc_ids(0)[k])

\* The shard indices worker k wrote
WrittenBy(k) == DOMAIN WikipediaTask(k).written

\* C21: in one pool of preprocess_wikipedia workers, a worker whose part has
\* at least one output file writes only shard indices of its own range
\* [start_out_file_i, first_forbidden_out_file_i), its assertion
\* file_i < first_forbidden_out_file_i does not fail, and no two workers
\* write the same shard
C21_WorkersWriteOwnShards ==
    machine = "borders" /\ bpc \in {"pool", "done", "raised"} =>
        \A k \in Ran :
            /\ num_output_files[k] >= 1 =>
                /\ result[k].raised # "AssertionError"
                /\ WrittenBy(k) \subseteq out_file_ids(0)[k]..(out_file_ids(0)[k + 1] - 1)
            /\ \A j \in Ran \ {k} : WrittenBy(k) \cap WrittenBy(j) = {}

\* Every worker has returned, two of them wrote shards and one of them wrote
\* more than one
C21_Witness ==
    /\ machine = "borders"
    /\ bpc = "done"
    /\ \E k \in Ran : Cardinality(WrittenBy(k)) >= 2 /\ num_output_files[k] >= 3
    /\ \E k \in Ran : \E j \in Ran \ {k} : WrittenBy(k) # {} /\ WrittenBy(j) # {}

\* C26: every document ID emitted by worker k is at least start_doc_ids[k] and
\* below the first ID assigned to worker k + 1, so no two workers emit the
\* same ID and result[0].update(result[i]) overwrites no entry
C26_WorkerIdsInOwnRange ==
    machine = "borders" /\ bpc \in {"pool", "done", "raised"} =>
        \A k \in Ran :
            /\ \A d \in DOMAIN result[k].map :
                /\ d >= start_doc_ids(0)[k]
                /\ k < num_parts => d < start_doc_ids(0)[k + 1]
            /\ \A j \in Ran \ {k} : DOMAIN result[k].map \cap DOMAIN result[j].map = {}

----------------------------------------------------------------------------
(* Claims about what the dev/test extraction stage leaves in the
   after-extraction directory and in dev_text.txt and test_text.txt *)

\* The indices of the lines of document d of the shard of task k that gave no
\* word to a segment, in the order of the document
Unconsumed(k, d) ==
    KeptLines(Len(documents[DevFiles[k]][d].lines),
              {i \in 0..(Len(documents[DevFiles[k]][d].lines) - 1) : <<d, i>> \in ConsumedLines(k)}, 0)

\* C25: after the dev/test extraction stage with dev_size + test_size > 0, for
\* every shard of the document directory, the shards that got no segment
\* included, the lines of every document that gave no word to a segment are
\* in the shard of the same name of the after-extraction directory, in their
\* order
C25_UnconsumedLinesKept ==
    machine = "dev" /\ dpc = "done" =>
        \A k \in 1..Len(dev_results) :
            \A d \in 1..Len(documents[DevFiles[k]]) :
                Unconsumed(k, d) # <<>> =>
                    \E doc \in WrittenFrom(k, d) :
                        /\ doc.kept = Unconsumed(k, d)
                        /\ doc.lines = [i \in 1..Len(doc.kept) |->
                                            documents[DevFiles[k]][d].lines[doc.kept[i] + 1]]

\* The lengths assigned to task k
LengthsOf(k) == get_segment_lengths_by_files(num_segments_by_files, sequence_length_range)[k]

\* C27: a task of extract_dev_text_segments_worker that returns has cut as
\* many segments as it was assigned lengths and its assertion does not fail;
\* when every task has returned, the segments are dev_size + test_size in
\* number, the assertion of extract_dev_text_segments does not fail, and the
\* segments are written in order, the first dev_size to dev_text.txt and the
\* other test_size to test_text.txt, none to both
C27_SegmentCountsExact ==
    machine = "dev" /\ dpc \in {"pool", "done", "raised"} =>
        /\ \A k \in 1..Len(dev_results) :
            /\ dev_results[k].raised # "AssertionError"
            /\ dev_results[k].raised = "none" => Len(dev_results[k].segments) = Len(LengthsOf(k))
        /\ (dev_results # <<>> /\ \A k \in 1..Len(dev_results) : dev_results[k].raised = "none") =>
            /\ SumSeq([k \in 1..Len(dev_results) |-> Len(dev_results[k].segments)])
                    = dev_size + test_size
            /\ dpc # "raised"
        /\ dpc = "done" =>
            /\ Len(dev_text) = dev_size
            /\ Len(test_text) = test_size
            /\ dev_text \o test_text = chain(dev_results, Len(dev_results))

\* Two shards gave one segment each: one is in dev_text.txt, the other in
\* test_text.txt
C27_Witness ==
    /\ machine = "dev"
    /\ dpc = "done"
    /\ Len(dev_text) = 1
    /\ Len(test_text) = 1
    /\ Cardinality(CutShards) = 2

----------------------------------------------------------------------------
(* merge_small_files and the shards of the corpora extracted before *)

\* The shards that were in the document directory when merge_small_files was
\* called and that its argument doc_id_to_file_i does not name
ShardsOfOtherCorpora == DOMAIN documents_before \ RangeOf(merge_input)

\* C29: merge_small_files leaves the shards that its map does not name as
\* they were, and does not fail because they are in the directory
C29_OtherCorporaUntouched ==
    machine = "merge" /\ mpc \in {"loop", "done", "raised"} =>
        /\ \A f \in ShardsOfOtherCorpora :
            /\ f \in DOMAIN documents
            /\ documents[f] = documents_before[f]
        /\ ShardsOfOtherCorpora # {} => mpc # "raised"

----------------------------------------------------------------------------
(* cut_and_save and the lengths it passes to cut_and_save_one_pass *)

\* C30: cut_and_save does not raise: a shard of fewer than 2 * min_len words
\* is skipped and nothing is written for it, and for a shard of at least
\* 2 * min_len words the list num_words_in_segments that is passed to
\* cut_and_save_one_pass is not empty
C30_CutAndSaveDoesNotRaise ==
    machine = "cut" /\ sequence_range # <<>> /\ cpc # "cut_and_save" =>
        /\ cut_raised = "none"
        /\ cpc # "raised"
        /\ count_words(cut_text) < 2 * sequence_range[1] => cpc = "returned" /\ out_f = <<>>
        /\ count_words(cut_text) >= 2 * sequence_range[1] => num_words_in_segments # <<>>

----------------------------------------------------------------------------
(* The stages that start their progress process by hand *)

\* The -1 sentinel has been put on queue i
SentinelSent(i) == delivered[i] \/ -1 \in RangeOf(progress_queues[i])

\* C28: when the pool of a stage has finished without an exception, the stage
\* puts the -1 sentinel on every queue of its progress process before it
\* joins the process
C28_SentinelBeforeJoin ==
    machine = "progress" /\ ~exc /\ gpc \in {"join", "returned"} =>
        \A i \in Bars : SentinelSent(i)

-----------------------------------------------------------------------------
(* main and get_args: the driver of the stages                             *)
(*                                                                         *)
(* A stage is taken as one step of main: what it reads from output_dir,    *)
(* what it creates there, and whether it returns or raises. The contents   *)
(* of the files are the matter of the other machines.                      *)

MaxCorpusArgs == 2

\* SUPPORTED_CORPUS_TYPES, the choices of --corpus_types
SUPPORTED_CORPUS_TYPES ==
    {"wikipedia", "europarl", "TED", "rapid", "news-commentary", "wiki-extracted", "news-crawl",
     "pg19", "pubmed", "google-normalization-dataset", "tatoeba", "europarl-raw", "un"}

\* The corpus types a command line of the model names: a supported one and
\* one that is not in the list
CorpusTypeArgs == {"wikipedia", "klingon"}

\* choices=["cutting", "shuffling", "writing"] of --resume_from
ResumeChoices == {"cutting", "shuffling", "writing"}

\* The punctuation marks a command line of the model names
Marks == {"(", ")", "#"}

\* small.SUPPORTED_BERT_PUNCTUATION: "#" stands for a mark outside the set
SUPPORTED_BERT_PUNCTUATION == Marks \ {"#"}

\* What earlier runs may have left in output_dir
LeftByEarlierRuns ==
    {"documents", "after_extraction_documents", "dev_text.txt", "test_text.txt",
     "sorted_text.txt", "shuffled_text.txt"}

InitDriver ==
    /\ machine = "driver"
    /\ driver_pc = "get_args"
    /\ resume_from \in {"None"} \cup ResumeChoices
    /\ input_files_or_dirs \in {-1} \cup 1..MaxCorpusArgs
    /\ \E n \in 1..MaxCorpusArgs : corpus_types \in [1..n -> CorpusTypeArgs]
    /\ allowed_punctuation \in SUBSET Marks
    /\ args_dev_size \in 0..1
    /\ args_test_size \in 0..1
    /\ intact_sentences \in BOOLEAN
    /\ on_disk \in SUBSET LeftByEarlierRuns
    /\ created = {}
    /\ executed = <<>>
    /\ driver_error = "none"
    /\ documents = EmptyMap
    /\ doc_id_to_file_i = EmptyMap
    /\ IdleBorders
    /\ IdleExtract
    /\ IdleMerge
    /\ IdleAlloc
    /\ IdleDev
    /\ IdleCut
    /\ IdleEuroparl
    /\ IdleUn
    /\ IdleProgress

\* get_args: parse_args refuses a corpus type outside the choices, expanduser
\* iterates over input_files_or_dirs (None when the option is not given, which
\* required=not add_resume_argument allows), parser.error on different
\* lengths, and a warning, nothing more, on a mark outside
\* SUPPORTED_BERT_PUNCTUATION
get_args ==
    IF \E k \in DOMAIN corpus_types : corpus_types[k] \notin SUPPORTED_CORPUS_TYPES
    THEN "SystemExit"
    ELSE IF input_files_or_dirs = -1
    THEN "TypeError"
    ELSE IF input_files_or_dirs # Len(corpus_types)
    THEN "SystemExit"
    ELSE "args"

\* args = get_args(SUPPORTED_CORPUS_TYPES, add_resume_argument=True)
main_get_args ==
    /\ machine = "driver"
    /\ driver_pc = "get_args"
    /\ IF get_args = "args"
       THEN driver_pc' = "extraction" /\ UNCHANGED driver_error
       ELSE driver_pc' = "raised" /\ driver_error' = get_args
    /\ UNCHANGED <<machine, resume_from, input_files_or_dirs, corpus_types, allowed_punctuation,
                   args_dev_size, args_test_size, intact_sentences, on_disk, created, executed>>
    /\ UNCHANGED <<notDriver, varsStore>>

\* The stage ends the run with an exception
stage_raises(name, exception) ==
    /\ driver_pc' = "raised"
    /\ driver_error' = exception
    /\ executed' = Append(executed, name)
    /\ UNCHANGED <<on_disk, created>>

\* The stage returns after it has written the given files and directories
stage_returns(name, outputs, next_pc) ==
    /\ driver_pc' = next_pc
    /\ executed' = Append(executed, name)
    /\ on_disk' = on_disk \cup outputs
    /\ created' = created \cup outputs
    /\ UNCHANGED driver_error

\* The stage is not run
stage_skipped(next_pc) ==
    /\ driver_pc' = next_pc
    /\ UNCHANGED <<on_disk, created, executed, driver_error>>

\* if args.resume_from is None:   (the preprocessing of the corpora)
runs_extraction == resume_from = "None"

\* if args.resume_from is None or args.resume_from in ['dev_test_extraction']:
runs_dev_test_extraction == resume_from = "None" \/ resume_from \in {"dev_test_extraction"}

\* if args.resume_from is None or args.resume_from in ["cutting"]:
runs_cutting == resume_from = "None" \/ resume_from \in {"cutting"}

runs_shuffling_only_after_cutting == resume_from = "None" \/ resume_from \in {"cutting"}

\* if args.resume_from is None or args.resume_from in ["cutting", "shuffling"]:
runs_shuffling == resume_from = "None" \/ resume_from \in {"cutting", "shuffling"}

\* after_extraction_document_dir
after_extraction_document_dir ==
    IF args_dev_size > 0 \/ args_test_size > 0 THEN "after_extraction_documents" ELSE "documents"

\* rp = '(' not in args.allowed_punctuation or ')' not in args.allowed_punctuation
rp == "(" \notin allowed_punctuation \/ ")" \notin allowed_punctuation

\* The corpora are preprocessed into document_dir; a preprocessor may raise
main_extraction ==
    /\ machine = "driver"
    /\ driver_pc = "extraction"
    /\ IF runs_extraction
       THEN \E ok \in BOOLEAN :
                IF ok
                THEN stage_returns("extraction", {"documents"}, "dev_test_extraction")
                ELSE stage_raises("extraction", "Exception")
       ELSE stage_skipped("dev_test_extraction")
    /\ UNCHANGED <<machine, resume_from, input_files_or_dirs, corpus_types, allowed_punctuation,
                   args_dev_size, args_test_size, intact_sentences>>
    /\ UNCHANGED <<notDriver, varsStore>>

\* extract_dev_text_segments lists document_dir, raises when the segments
\* asked for cannot be allocated, and else writes the shards that gave
\* segments into after_extraction_document_dir and the two text files
main_dev_test_extraction ==
    /\ machine = "driver"
    /\ driver_pc = "dev_test_extraction"
    /\ IF runs_dev_test_extraction
       THEN IF "documents" \notin on_disk
            THEN stage_raises("dev_test_extraction", "FileNotFoundError")
            ELSE \E ok \in BOOLEAN :
                    IF ok \/ args_dev_size + args_test_size = 0
                    THEN stage_returns("dev_test_extraction",
                                       {after_extraction_document_dir, "dev_text.txt", "test_text.txt"},
                                       "cutting")
                    ELSE stage_raises("dev_test_extraction", "ValueError")
       ELSE stage_skipped("cutting")
    /\ UNCHANGED <<machine, resume_from, input_files_or_dirs, corpus_types, allowed_punctuation,
                   args_dev_size, args_test_size, intact_sentences>>
    /\ UNCHANGED <<notDriver, varsStore>>

\* remove_parentheses_parallel when rp, then cut_and_save_parallel or
\* cut_and_save_parallel_intact_sentences: the first statement of each lists
\* its document directory
main_cutting ==
    /\ machine = "driver"
    /\ driver_pc = "cutting"
    /\ IF runs_cutting
       THEN IF after_extraction_document_dir \notin on_disk
            THEN stage_raises("cutting", "FileNotFoundError")
            ELSE \E ok \in BOOLEAN :
                    IF ok
                    THEN stage_returns("cutting",
                                       (IF rp THEN {"documents_without_parentheses"} ELSE {})
                                           \cup {"cut_separate_files", "sorted_text.txt"},
                                       "shuffling")
                    ELSE stage_raises("cutting", "Exception")
       ELSE stage_skipped("shuffling")
    /\ UNCHANGED <<machine, resume_from, input_files_or_dirs, corpus_types, allowed_punctuation,
                   args_dev_size, args_test_size, intact_sentences>>
    /\ UNCHANGED <<notDriver, varsStore>>

\* shuffle_file_lines opens the output file for writing and then runs shuf
\* on the input file with check=True
main_shuffling ==
    /\ machine = "driver"
    /\ driver_pc = "shuffling"
    /\ IF runs_shuffling
       THEN /\ executed' = Append(executed, "shuffling")
            /\ on_disk' = on_disk \cup {"shuffled_text.txt"}
            /\ created' = created \cup {"shuffled_text.txt"}
            /\ IF "sorted_text.txt" \in on_disk
               THEN driver_pc' = "count_lines" /\ UNCHANGED driver_error
               ELSE driver_pc' = "raised" /\ driver_error' = "CalledProcessError"
       ELSE stage_skipped("count_lines")
    /\ UNCHANGED <<machine, resume_from, input_files_or_dirs, corpus_types, allowed_punctuation,
                   args_dev_size, args_test_size, intact_sentences>>
    /\ UNCHANGED <<notDriver, varsStore>>

\* size = count_lines_in_file(shuffled_text_file): the writing begins
main_count_lines ==
    /\ machine = "driver"
    /\ driver_pc = "count_lines"
    /\ IF "shuffled_text.txt" \in on_disk
       THEN stage_returns("writing", {}, "write_test")
       ELSE stage_raises("writing", "FileNotFoundError")
    /\ UNCHANGED <<machine, resume_from, input_files_or_dirs, corpus_types, allowed_punctuation,
                   args_dev_size, args_test_size, intact_sentences>>
    /\ UNCHANGED <<notDriver, varsStore>>

\* big.write_dataset_fast and big.write_dataset_parallel read the text file
\* and write the data set
write_dataset(text_file) == IF text_file \in on_disk THEN "written" ELSE "FileNotFoundError"

\* One data set is written, or not asked for
main_write(pc, asked, text_file, data_set, next_pc) ==
    /\ driver_pc = pc
    /\ IF ~asked
       THEN driver_pc' = next_pc /\ UNCHANGED <<on_disk, created, driver_error>>
       ELSE IF write_dataset(text_file) = "written"
       THEN /\ driver_pc' = next_pc
            /\ on_disk' = on_disk \cup {data_set}
            /\ created' = created \cup {data_set}
            /\ UNCHANGED driver_error
       ELSE /\ driver_pc' = "raised"
            /\ driver_error' = write_dataset(text_file)
            /\ UNCHANGED <<on_disk, created>>
    /\ UNCHANGED <<machine, resume_from, input_files_or_dirs, corpus_types, allowed_punctuation,
                   args_dev_size, args_test_size, intact_sentences, executed>>
    /\ UNCHANGED <<notDriver, varsStore>>

\* if args.test_size > 0: big.write_dataset_fast([0, args.test_size], test_text_file, ...)
main_write_test ==
    /\ machine = "driver"
    /\ main_write("write_test", args_test_size > 0, "test_text.txt", "test", "write_dev")

\* if args.dev_size > 0: big.write_dataset_fast([0, args.dev_size], dev_text_file, ...)
main_write_dev ==
    /\ machine = "driver"
    /\ main_write("write_dev", args_dev_size > 0, "dev_text.txt", "dev", "write_train")

\* big.write_dataset_parallel([0, size], shuffled_text_file, ...)
main_write_train ==
    /\ machine = "driver"
    /\ main_write("write_train", TRUE, "shuffled_text.txt", "train", "done")

NextDriver ==
    \/ main_get_args
    \/ main_extraction
    \/ main_dev_test_extraction
    \/ main_cutting
    \/ main_shuffling
    \/ main_count_lines
    \/ main_write_test
    \/ main_write_dev
    \/ main_write_train

SpecDriver == InitDriver /\ [][NextDriver]_vars

-----------------------------------------------------------------------------
(* Claims about the driver *)

\* The stages in the order of main
StageOrder == <<"extraction", "dev_test_extraction", "cutting", "shuffling", "writing">>

\* The stages from the one the run is started at, in order: all of them when
\* --resume_from is not given
StagesFrom(s) ==
    IF s = "None"
    THEN StageOrder
    ELSE LET first == CHOOSE k \in DOMAIN StageOrder : StageOrder[k] = s
         IN SubSeq(StageOrder, first, Len(StageOrder))

\* The stages before the one the run is started at
SkippedStages(s) == RangeOf(StageOrder) \ RangeOf(StagesFrom(s))

\* What a stage leaves in output_dir for the stages after it
ArtifactsOf(name) ==
    CASE name = "extraction" -> {"documents"}
      [] name = "dev_test_extraction" -> {after_extraction_document_dir, "dev_text.txt", "test_text.txt"}
      [] name = "cutting" -> {"sorted_text.txt"}
      [] name = "shuffling" -> {"shuffled_text.txt"}
      [] OTHER -> {}

ArtifactsOfSkipped(s) == UNION {ArtifactsOf(name) : name \in SkippedStages(s)}

IsPrefixOf(p, whole) == Len(p) <= Len(whole) /\ p = SubSeq(whole, 1, Len(p))

\* C22: the stages the driver has started are, at every moment, the first
\* stages of the order extraction, dev/test extraction, cutting, shuffling,
\* writing, beginning at the stage named by --resume_from (at extraction
\* when it is not given); a run that reaches the end has started every one
\* of them; and the run creates none of the outputs of the stages before the
\* one it was started at
C22_StagesFromCheckpointInOrder ==
    machine = "driver" =>
        /\ IsPrefixOf(executed, StagesFrom(resume_from))
        /\ driver_pc = "done" => executed = StagesFrom(resume_from)
        /\ created \cap ArtifactsOfSkipped(resume_from) = {}

\* Runs resumed at each of the three checkpoints reach the end
C22_Witness ==
    /\ machine = "driver"
    /\ driver_pc = "done"
    /\ resume_from = "shuffling"
    /\ executed = <<"shuffling", "writing">>
    /\ LeftByEarlierRuns \ {"shuffled_text.txt"} \subseteq on_disk

\* C23: a run started at a checkpoint while an output of a skipped stage is
\* missing from output_dir has, at every moment, started no stage and
\* created no file, and does not reach the end
C23_MissingArtifactFailsFast ==
    /\ machine = "driver"
    /\ resume_from \in ResumeChoices
    /\ driver_pc # "get_args"
    /\ get_args = "args"
    /\ ArtifactsOfSkipped(resume_from) \ on_disk # {}
    => executed = <<>> /\ created = {} /\ driver_pc # "done"

\* An argument error of one of the three kinds: a different number of input
\* paths and corpus types, a corpus type outside the supported list, a
\* punctuation mark outside the supported set
ArgumentError ==
    \/ input_files_or_dirs # Len(corpus_types)
    \/ \E k \in DOMAIN corpus_types : corpus_types[k] \notin SUPPORTED_CORPUS_TYPES
    \/ allowed_punctuation \ SUPPORTED_BERT_PUNCTUATION # {}

\* C24: with an argument error of any of the three kinds on the command
\* line, the run never gets past get_args: it is in get_args or has been
\* ended there by the error, and no stage has been started
C24_ArgumentErrorsStopInGetArgs ==
    machine = "driver" /\ ArgumentError =>
        /\ driver_pc \in {"get_args", "raised"}
        /\ executed = <<>>
        /\ created = {}

====
